---- MODULE Spec2Model ----
(***************************************************************************)
(* Topology-aware CPU allocator of the balloons policy: the CPU tree       *)
(* (cpuTreeNode) and the allocator that resizes CPU sets on it             *)
(* (cpuTreeAllocator).                                                     *)
(*                                                                         *)
(* Tree nodes live in a heap: a sequence of node records, a *cpuTreeNode   *)
(* being an index into it and 0 the nil pointer.  CPU sets are sets of     *)
(* naturals, node names are sequences of byte values so that Go's string   *)
(* comparison can be computed.                                             *)
(***************************************************************************)
EXTENDS Integers, Sequences, FiniteSets, TLC

VARIABLES
    nodes,      \* the heap of cpuTreeNode records
    root,       \* the caller's topology tree (pointer into nodes), 0 before it exists
    split,      \* result of a direct SplitLevel call: [root, level], or NoSplit
    tas,        \* the allocators built so far (sequence of cpuTreeAllocator records)
    provider,   \* the external topology hint provider: device path -> answer
    queries,    \* how many times the provider was asked, per device path
    call,       \* the ResizeCpus call in progress / its outcome
    controllers, \* package control: the registered controllers, name -> controller
    control,    \* the control instance made by NewControl, or NoControl
    invoked,    \* the Controller methods the last operation called, in order
    started     \* per controller, what its most recent Start returned

vars == <<nodes, root, split, tas, provider, queries, call,
          controllers, control, invoked, started>>

\* The state of package control.
controlVars == <<controllers, control, invoked, started>>

\* The state of the CPU tree and its allocators.
cpuTreeVars == <<nodes, root, split, tas, provider, queries, call>>

NoControl == [controllers |-> <<>>, made |-> FALSE]

\* var controllers = make(map[string]*controller); no control instance yet.
NoControllers ==
    /\ controllers = <<>>
    /\ control = NoControl
    /\ invoked = <<>>
    /\ started = <<>>

-----------------------------------------------------------------------------
(* Strings as byte sequences.                                              *)

nil == 0

\* Go's s < t on strings: bytewise lexicographic order.
RECURSIVE StrLessFrom(_, _, _)
StrLessFrom(s, t, i) ==
    IF i > Len(s) THEN i <= Len(t)
    ELSE IF i > Len(t) THEN FALSE
    ELSE IF s[i] # t[i] THEN s[i] < t[i]
    ELSE StrLessFrom(s, t, i + 1)

StrLess(s, t) == StrLessFrom(s, t, 1)

\* fmt's %d of a non-negative integer: its decimal digits.
RECURSIVE Itoa(_)
Itoa(n) ==
    IF n < 0 THEN <<45>> \o Itoa(-n)
    ELSE IF n < 10 THEN <<48 + n>>
    ELSE Itoa(n \div 10) \o <<48 + (n % 10)>>

\* CPUSet.List(): the CPUs in ascending order.
RECURSIVE List(_)
List(S) ==
    IF S = {} THEN <<>>
    ELSE LET m == CHOOSE x \in S : \A y \in S : x <= y
         IN  <<m>> \o List(S \ {m})

StrSystem == <<115, 121, 115, 116, 101, 109>>   \* "system"
StrP      == <<112>>                            \* "p"
StrD      == <<100>>                            \* "d"
StrN      == <<110>>                            \* "n"
StrDollar == <<36>>                             \* "$"
StrCpu    == <<99, 112, 117>>                   \* "cpu"
StrT      == <<116>>                            \* "t"
StrClass  == <<99, 108, 97, 115, 115>>          \* "class"

-----------------------------------------------------------------------------
(* cpuTreeNode and the tree operations.  Operations that allocate return   *)
(* [h |-> the new heap, p |-> the new node].                               *)

CPUTopologyLevelUndefined == "undefined"
CPUTopologyLevelSystem    == "system"
CPUTopologyLevelPackage   == "package"
CPUTopologyLevelDie       == "die"
CPUTopologyLevelNuma      == "numa"
CPUTopologyLevelL2Cache   == "l2cache"
CPUTopologyLevelCore      == "core"
CPUTopologyLevelThread    == "thread"

\* NewCpuTree returns a named CPU tree node.
NewCpuTree(h, name) ==
    [h |-> Append(h, [name |-> name, level |-> CPUTopologyLevelUndefined,
                      parent |-> nil, children |-> <<>>, cpus |-> {}]),
     p |-> Len(h) + 1]

\* AddChild adds new child node to a CPU tree node.
AddChild(h, t, child) ==
    [h EXCEPT ![child].parent = t, ![t].children = Append(h[t].children, child)]

\* AddCpus adds CPUs to a CPU tree node and all its parents.
RECURSIVE AddCpus(_, _, _)
AddCpus(h, t, cpus) ==
    LET h1 == [h EXCEPT ![t].cpus = @ \cup cpus]
    IN  IF h[t].parent # nil THEN AddCpus(h1, h[t].parent, cpus) ELSE h1

\* CopyNode: a new node with the fields of t, parent and children included.
CopyNode(h, t) ==
    [h |-> Append(h, [name |-> h[t].name, level |-> h[t].level,
                      parent |-> h[t].parent, children |-> h[t].children,
                      cpus |-> h[t].cpus]),
     p |-> Len(h) + 1]

\* CopyTree that copies the top node only and shares the children of t.
CopyTreeShallow(h, t) == CopyNode(h, t)

\* CopyTree: deep copy; the copy of the top node keeps the parent of t.
RECURSIVE CopyTree(_, _)
RECURSIVE CopyChildren(_, _, _, _)
CopyChildren(h, newNode, children, i) ==
    IF i > Len(children) THEN h
    ELSE LET c == CopyTree(h, children[i])
         IN  CopyChildren(AddChild(c.h, newNode, c.p), newNode, children, i + 1)

CopyTree(h, t) ==
    LET n  == CopyNode(h, t)
        h1 == [n.h EXCEPT ![n.p].children = <<>>]
    IN  [h |-> CopyChildren(h1, n.p, h[t].children, 1), p |-> n.p]

\* Depth returns the distance from the root node.
RECURSIVE Depth(_, _)
Depth(h, t) == IF h[t].parent = nil THEN 0 ELSE Depth(h, h[t].parent) + 1

\* SiblingIndex: index among the parent's children (0-based), -1 for a
\* root, -2 when the node is not listed by its parent.
SiblingIndex(h, t) ==
    IF h[t].parent = nil THEN -1
    ELSE LET ch == h[h[t].parent].children
             at == {i \in 1..Len(ch) : ch[i] = t}
         IN  IF at = {} THEN -2
             ELSE (CHOOSE i \in at : \A j \in at : i <= j) - 1

\* The nodes of the tree under t in depth-first (pre-)order.
RECURSIVE PreOrder(_, _)
RECURSIVE PreOrderAll(_, _, _)
PreOrderAll(h, children, i) ==
    IF i > Len(children) THEN <<>>
    ELSE PreOrder(h, children[i]) \o PreOrderAll(h, children, i + 1)

PreOrder(h, t) == <<t>> \o PreOrderAll(h, h[t].children, 1)

TreeNodes(h, t) == {PreOrder(h, t)[i] : i \in 1..Len(PreOrder(h, t))}

\* FindLeafWithCpu: the first leaf, in depth-first order, that has the cpu.
FindLeafWithCpu(h, t, cpu) ==
    LET po   == PreOrder(h, t)
        hits == {i \in 1..Len(po) : h[po[i]].children = <<>> /\ cpu \in h[po[i]].cpus}
    IN  IF hits = {} THEN nil
        ELSE po[CHOOSE i \in hits : \A j \in hits : i <= j]

-----------------------------------------------------------------------------
(* NewCpuTreeFromSystem.  The discovered system is a record                *)
(*   [packages |-> <<[id, dies |-> <<[id, nodes |-> <<[id, caches |->      *)
(*        <<[id, cpus]>>]>>]>>]>>, threads |-> [cpu |-> ThreadCPUSet]]     *)
(* where caches is the order in which the l2cs map happens to be iterated. *)

RECURSIVE AddThreadTrees(_, _, _, _)
AddThreadTrees(h, coreTree, threadIDs, i) ==
    IF i > Len(threadIDs) THEN h
    ELSE LET n  == NewCpuTree(h, h[coreTree].name \o StrT \o Itoa(threadIDs[i]))
             h1 == [n.h EXCEPT ![n.p].level = CPUTopologyLevelThread]
             h2 == AddChild(h1, coreTree, n.p)
         IN  AddThreadTrees(AddCpus(h2, n.p, {threadIDs[i]}), coreTree, threadIDs, i + 1)

RECURSIVE AddCoreTrees(_, _, _, _, _, _, _)
AddCoreTrees(h, sys, nodeTree, l2cTree, cpuIDs, i, threadsSeen) ==
    IF i > Len(cpuIDs) THEN h
    ELSE IF cpuIDs[i] \in threadsSeen
         THEN AddCoreTrees(h, sys, nodeTree, l2cTree, cpuIDs, i + 1, threadsSeen)
    ELSE LET n  == NewCpuTree(h, h[nodeTree].name \o StrCpu \o Itoa(cpuIDs[i]))
             h1 == [n.h EXCEPT ![n.p].level = CPUTopologyLevelCore]
             h2 == AddChild(h1, l2cTree, n.p)
             th == sys.threads[cpuIDs[i]]
         IN  AddCoreTrees(AddThreadTrees(h2, n.p, List(th), 1), sys, nodeTree, l2cTree,
                          cpuIDs, i + 1, threadsSeen \cup th)

RECURSIVE AddL2cTrees(_, _, _, _, _)
AddL2cTrees(h, sys, nodeTree, caches, i) ==
    IF i > Len(caches) THEN h
    ELSE LET n  == NewCpuTree(h, h[nodeTree].name \o StrDollar \o Itoa(caches[i].id))
             h1 == [n.h EXCEPT ![n.p].level = CPUTopologyLevelL2Cache]
             h2 == AddChild(h1, nodeTree, n.p)
         IN  AddL2cTrees(AddCoreTrees(h2, sys, nodeTree, n.p, List(caches[i].cpus), 1, {}),
                         sys, nodeTree, caches, i + 1)

RECURSIVE AddNodeTrees(_, _, _, _, _)
AddNodeTrees(h, sys, dieTree, numas, i) ==
    IF i > Len(numas) THEN h
    ELSE LET n  == NewCpuTree(h, h[dieTree].name \o StrN \o Itoa(numas[i].id))
             h1 == [n.h EXCEPT ![n.p].level = CPUTopologyLevelNuma]
             h2 == AddChild(h1, dieTree, n.p)
         IN  AddNodeTrees(AddL2cTrees(h2, sys, n.p, numas[i].caches, 1), sys, dieTree, numas, i + 1)

RECURSIVE AddDieTrees(_, _, _, _, _)
AddDieTrees(h, sys, packageTree, dies, i) ==
    IF i > Len(dies) THEN h
    ELSE LET n  == NewCpuTree(h, h[packageTree].name \o StrD \o Itoa(dies[i].id))
             h1 == [n.h EXCEPT ![n.p].level = CPUTopologyLevelDie]
             h2 == AddChild(h1, packageTree, n.p)
         IN  AddDieTrees(AddNodeTrees(h2, sys, n.p, dies[i].nodes, 1), sys, packageTree, dies, i + 1)

RECURSIVE AddPackageTrees(_, _, _, _, _)
AddPackageTrees(h, sys, sysTree, packages, i) ==
    IF i > Len(packages) THEN h
    ELSE LET n  == NewCpuTree(h, StrP \o Itoa(packages[i].id))
             h1 == [n.h EXCEPT ![n.p].level = CPUTopologyLevelPackage]
             h2 == AddChild(h1, sysTree, n.p)
         IN  AddPackageTrees(AddDieTrees(h2, sys, n.p, packages[i].dies, 1), sys, sysTree, packages, i + 1)

NewCpuTreeFromSystem(h, sys) ==
    LET n  == NewCpuTree(h, StrSystem)
        h1 == [n.h EXCEPT ![n.p].level = CPUTopologyLevelSystem]
    IN  [h |-> AddPackageTrees(h1, sys, n.p, sys.packages, 1), p |-> n.p]

-----------------------------------------------------------------------------
(* SplitLevel.  cpuClassifier is a function from the CPUs of t to classes; *)
(* order is the order in which the classCpus map happens to be iterated.   *)

\* The handler of the inner walk and the walk itself: mask the CPUs of cn,
\* cut cn out of its parent's children when nothing is left (and skip its
\* children), otherwise go on with the children cn had.
RECURSIVE MaskWalk(_, _, _)
RECURSIVE MaskWalkChildren(_, _, _, _)
MaskWalkChildren(h, children, cpuMask, i) ==
    IF i > Len(children) THEN h
    ELSE MaskWalkChildren(MaskWalk(h, children[i], cpuMask), children, cpuMask, i + 1)

MaskWalk(h, cn, cpuMask) ==
    LET h1 == [h EXCEPT ![cn].cpus = @ \cap cpuMask]
    IN  IF h1[cn].cpus = {} /\ h1[cn].parent # nil
        THEN [h1 EXCEPT ![h1[cn].parent].children = SelectSeq(@, LAMBDA child : child # cn)]
        ELSE MaskWalkChildren(h1, h1[cn].children, cpuMask, 1)

\* for _, child := range origChildren { ... newNode.AddChild(newChild) }
RECURSIVE AddMaskedChildren(_, _, _, _, _)
AddMaskedChildren(h, newNode, origChildren, cpuMask, i) ==
    IF i > Len(origChildren) THEN h
    ELSE LET newChild == CopyTree(h, origChildren[i])
             h1       == MaskWalk(newChild.h, newChild.p, cpuMask)
         IN  AddMaskedChildren(AddChild(h1, newNode, newChild.p), newNode,
                               origChildren, cpuMask, i + 1)

\* for class, cpus := range classCpus { ... }
RECURSIVE AddClasses(_, _, _, _, _, _, _)
AddClasses(h, t, tn, origChildren, cpuClassifier, order, k) ==
    IF k > Len(order) THEN h
    ELSE LET cpuMask == {cpu \in h[t].cpus : cpuClassifier[cpu] = order[k]}
             n  == NewCpuTree(h, h[tn].name \o StrClass \o Itoa(order[k]))
             h1 == AddChild(n.h, tn, n.p)
             h2 == [h1 EXCEPT ![n.p].cpus = h1[tn].cpus \cap cpuMask,
                              ![n.p].level = h1[tn].level,
                              ![n.p].parent = tn]
         IN  AddClasses(AddMaskedChildren(h2, n.p, origChildren, cpuMask, 1),
                        t, tn, origChildren, cpuClassifier, order, k + 1)

\* The handler of the outer walk and the walk itself.
RECURSIVE SplitWalk(_, _, _, _, _, _)
RECURSIVE SplitWalkChildren(_, _, _, _, _, _, _)
SplitWalkChildren(h, t, children, splitLevel, cpuClassifier, order, i) ==
    IF i > Len(children) THEN h
    ELSE SplitWalkChildren(SplitWalk(h, t, children[i], splitLevel, cpuClassifier, order),
                           t, children, splitLevel, cpuClassifier, order, i + 1)

SplitWalk(h, t, tn, splitLevel, cpuClassifier, order) ==
    IF h[tn].level # splitLevel
    THEN SplitWalkChildren(h, t, h[tn].children, splitLevel, cpuClassifier, order, 1)
    ELSE LET origChildren == h[tn].children
             h1 == [h EXCEPT ![tn].children = <<>>]
         IN  AddClasses(h1, t, tn, origChildren, cpuClassifier, order, 1)

SplitLevel(h, t, splitLevel, cpuClassifier, order) ==
    LET newRoot == CopyTree(h, t)
    IN  [h |-> SplitWalk(newRoot.h, t, newRoot.p, splitLevel, cpuClassifier, order),
         p |-> newRoot.p]

\* The classes a classifier gives to the CPUs of t, and the orders in which
\* a Go map holding them can be iterated.
Classes(h, t, cpuClassifier) == {cpuClassifier[cpu] : cpu \in h[t].cpus}

Orders(S) ==
    {o \in [1..Cardinality(S) -> S] : \A i, j \in 1..Cardinality(S) : i # j => o[i] # o[j]}

-----------------------------------------------------------------------------
(* cpuTreeAllocator.  An allocator is [options, root, cacheCloseCpuSets];  *)
(* options is [topologyBalancing, preferSpreadOnPhysicalCores,             *)
(* preferCloseToDevices, preferFarFromDevices, virtDevCpusets,             *)
(* deviceUpdateOnEveryCpu].  A map is a function on its keys, the nil map  *)
(* and the empty map being the function with no key.  The callback is      *)
(* CallbackNil or CallbackSet; a set callback is an observer here: it      *)
(* receives the CPU set and the model records what it received.            *)

EmptyMap == <<>>

CallbackNil == "nil"
CallbackSet == "set"

\* NewAllocator that builds the split tree and goes on with the tree it got.
NewAllocatorNoSplit(h, t, options, order) ==
    LET cache == IF options.virtDevCpusets = EmptyMap THEN EmptyMap
                 ELSE options.virtDevCpusets
    IN  [h |-> h,
         ta |-> [options |-> options, root |-> t, cacheCloseCpuSets |-> cache]]

\* NewAllocator: the classifier of a CPU is the index of its leaf among the
\* children of the leaf's parent.
NewAllocator(h, t, options, order) ==
    LET cache == IF options.virtDevCpusets = EmptyMap THEN EmptyMap
                 ELSE options.virtDevCpusets
        cpuClassifier == [cpu \in h[t].cpus |-> SiblingIndex(h, FindLeafWithCpu(h, t, cpu))]
        newTree == SplitLevel(h, t, CPUTopologyLevelNuma, cpuClassifier, order)
    IN  IF options.preferSpreadOnPhysicalCores
        THEN [h |-> newTree.h,
              ta |-> [options |-> options, root |-> newTree.p, cacheCloseCpuSets |-> cache]]
        ELSE [h |-> h,
              ta |-> [options |-> options, root |-> t, cacheCloseCpuSets |-> cache]]

-----------------------------------------------------------------------------
(* ToAttributedSlice with the filter of resizeCpusMaxLocalSet.             *)

\* The filter with its bounds off by one: a branch that lacks one CPU passes.
MaxLocalSetFilterOffByOne(delta, tna) ==
    IF delta > 0 /\ tna.freeCpuCount - delta < -1 THEN FALSE
    ELSE IF delta < 0 /\ tna.currentCpuCount + delta < -1 THEN FALSE
    ELSE TRUE

\* filter out branches with insufficient cpus
MaxLocalSetFilter(delta, tna) ==
    IF delta > 0 /\ tna.freeCpuCount - delta < 0 THEN FALSE
    ELSE IF delta < 0 /\ tna.currentCpuCount + delta < 0 THEN FALSE
    ELSE TRUE

RECURSIVE toAttributedSlice(_, _, _, _, _, _, _, _)
RECURSIVE toAttributedSliceChildren(_, _, _, _, _, _, _, _, _)
toAttributedSliceChildren(h, children, i, currentCpus, freeCpus, delta, depth, currentCpuCounts, freeCpuCounts) ==
    IF i > Len(children) THEN <<>>
    ELSE toAttributedSlice(h, children[i], currentCpus, freeCpus, delta, depth,
                           currentCpuCounts, freeCpuCounts)
         \o toAttributedSliceChildren(h, children, i + 1, currentCpus, freeCpus, delta,
                                      depth, currentCpuCounts, freeCpuCounts)

toAttributedSlice(h, t, currentCpus, freeCpus, delta, depth, currentCpuCounts, freeCpuCounts) ==
    LET currentCpusHere == h[t].cpus \cap currentCpus
        freeCpusHere    == h[t].cpus \cap freeCpus
        tna == [t                |-> t,
                depth            |-> depth,
                currentCpus      |-> currentCpusHere,
                freeCpus         |-> freeCpusHere,
                currentCpuCount  |-> Cardinality(currentCpusHere),
                currentCpuCounts |-> Append(currentCpuCounts, Cardinality(currentCpusHere)),
                freeCpuCount     |-> Cardinality(freeCpusHere),
                freeCpuCounts    |-> Append(freeCpuCounts, Cardinality(freeCpusHere))]
    IN  IF ~MaxLocalSetFilter(delta, tna) THEN <<>>
        ELSE <<tna>> \o toAttributedSliceChildren(h, h[t].children, 1, currentCpus, freeCpus,
                            delta, depth + 1, tna.currentCpuCounts, tna.freeCpuCounts)

ToAttributedSlice(h, t, currentCpus, freeCpus, delta) ==
    toAttributedSlice(h, t, currentCpus, freeCpus, delta, 0, <<>>, <<>>)

-----------------------------------------------------------------------------
(* The comparators.                                                        *)

\* The first index at which two count vectors of the same length differ, 0
\* when they are equal.
FirstDiff(x, y) ==
    LET d == {i \in 1..Len(x) : x[i] # y[i]}
    IN  IF d = {} THEN 0 ELSE CHOOSE i \in d : \A j \in d : i <= j

\* The allocation order with the depths compared the wrong way round.
sorterAllocateShallowFirst(h, ta, a, b) ==
    IF a.depth # b.depth THEN a.depth < b.depth
    ELSE LET c == FirstDiff(a.currentCpuCounts, b.currentCpuCounts)
             f == FirstDiff(a.freeCpuCounts, b.freeCpuCounts)
         IN  IF c # 0 THEN a.currentCpuCounts[c] > b.currentCpuCounts[c]
             ELSE IF f # 0
                  THEN IF ta.options.topologyBalancing
                       THEN a.freeCpuCounts[f] > b.freeCpuCounts[f]
                       ELSE a.freeCpuCounts[f] < b.freeCpuCounts[f]
             ELSE StrLess(h[a.t].name, h[b.t].name)

\* The allocation order with names compared by <=.
sorterAllocateNameOrEqual(h, ta, a, b) ==
    IF a.depth # b.depth THEN a.depth > b.depth
    ELSE LET c == FirstDiff(a.currentCpuCounts, b.currentCpuCounts)
             f == FirstDiff(a.freeCpuCounts, b.freeCpuCounts)
         IN  IF c # 0 THEN a.currentCpuCounts[c] > b.currentCpuCounts[c]
             ELSE IF f # 0
                  THEN IF ta.options.topologyBalancing
                       THEN a.freeCpuCounts[f] > b.freeCpuCounts[f]
                       ELSE a.freeCpuCounts[f] < b.freeCpuCounts[f]
             ELSE ~StrLess(h[b.t].name, h[a.t].name)

sorterAllocate(h, ta, a, b) ==
    IF a.depth # b.depth THEN a.depth > b.depth
    ELSE LET c == FirstDiff(a.currentCpuCounts, b.currentCpuCounts)
             f == FirstDiff(a.freeCpuCounts, b.freeCpuCounts)
         IN  IF c # 0 THEN a.currentCpuCounts[c] > b.currentCpuCounts[c]
             ELSE IF f # 0
                  THEN IF ta.options.topologyBalancing
                       THEN a.freeCpuCounts[f] > b.freeCpuCounts[f]
                       ELSE a.freeCpuCounts[f] < b.freeCpuCounts[f]
             ELSE StrLess(h[a.t].name, h[b.t].name)

\* The release order with the current counts compared the wrong way round.
sorterReleaseMostCurrentFirst(h, ta, a, b) ==
    IF a.depth # b.depth THEN a.depth > b.depth
    ELSE LET c == FirstDiff(a.currentCpuCounts, b.currentCpuCounts)
             f == FirstDiff(a.freeCpuCounts, b.freeCpuCounts)
         IN  IF c # 0 THEN a.currentCpuCounts[c] > b.currentCpuCounts[c]
             ELSE IF f # 0
                  THEN a.freeCpuCounts[f] < b.freeCpuCounts[f]
             ELSE StrLess(h[b.t].name, h[a.t].name)

\* The release order that prefers more free CPUs when balancing.
sorterReleaseBalancingMostFree(h, ta, a, b) ==
    IF a.depth # b.depth THEN a.depth > b.depth
    ELSE LET c == FirstDiff(a.currentCpuCounts, b.currentCpuCounts)
             f == FirstDiff(a.freeCpuCounts, b.freeCpuCounts)
         IN  IF c # 0 THEN a.currentCpuCounts[c] < b.currentCpuCounts[c]
             ELSE IF f # 0
                  THEN IF ta.options.topologyBalancing
                       THEN a.freeCpuCounts[f] > b.freeCpuCounts[f]
                       ELSE a.freeCpuCounts[f] < b.freeCpuCounts[f]
             ELSE StrLess(h[b.t].name, h[a.t].name)

sorterRelease(h, ta, a, b) ==
    IF a.depth # b.depth THEN a.depth > b.depth
    ELSE LET c == FirstDiff(a.currentCpuCounts, b.currentCpuCounts)
             f == FirstDiff(a.freeCpuCounts, b.freeCpuCounts)
         IN  IF c # 0 THEN a.currentCpuCounts[c] < b.currentCpuCounts[c]
             ELSE IF f # 0
                  THEN IF ta.options.topologyBalancing
                       THEN a.freeCpuCounts[f] < b.freeCpuCounts[f]
                       ELSE a.freeCpuCounts[f] < b.freeCpuCounts[f]
             ELSE StrLess(h[b.t].name, h[a.t].name)

\* tnas[0] of the slice as ToAttributedSlice built it, not sorted.
SortSliceFirstUnsorted(h, ta, delta, tnas, i, best) == best

\* sort.Slice(tnas, less) followed by tnas[0]: the first record of the
\* sorted slice.  Slices of at most 12 records are sorted by insertion,
\* which keeps records that compare equal in their order in the slice; the
\* first of the sorted slice is then the first record no other is less than.
RECURSIVE SortSliceFirst(_, _, _, _, _, _)
SortSliceFirst(h, ta, delta, tnas, i, best) ==
    IF i > Len(tnas) THEN best
    ELSE LET less == IF delta > 0 THEN sorterAllocate(h, ta, tnas[i], best)
                     ELSE sorterRelease(h, ta, tnas[i], best)
         IN  SortSliceFirst(h, ta, delta, tnas, i + 1, IF less THEN tnas[i] ELSE best)

-----------------------------------------------------------------------------
(* The resizer chain.  A resizer gets the heap h, the allocator ta, the    *)
(* state st that a call can change or that records what it did             *)
(*   [cache    |-> ta.cacheCloseCpuSets,                                   *)
(*    provider |-> the hint provider, queries |-> calls made to it,        *)
(*    lookups  |-> number of topologyHintCpus calls,                       *)
(*    cbs      |-> the arguments deviceUpdateOnEveryCpu was called with],  *)
(* the remaining resizers and (currentCpus, freeCpus, delta).  It returns  *)
(* [addFrom, removeFrom, err, st].                                         *)

ErrNil                 == "nil"
ErrNoResizerLeft       == "internal error: a CPU resizer consulted next resizer but there was no one left"
ErrNotEnoughFree       == "not enough free CPUs to resize current CPU set"
ErrNotEnoughCurrent    == "not enough current CPUs to release"
ErrNoSingleCpuToAdd    == "internal error: failed to find single CPU to allocate"
ErrDoubleAdd           == "internal error: double add the same CPU"
ErrNoSingleCpuToFree   == "internal error: failed to find single cpu to free"
ErrDoubleRelease       == "internal error: double release of a cpu"
ErrNotEnoughFreeInTree == "not enough free CPUs"
ErrIndexOutOfRange     == "panic: index out of range"

emptyCpuSet == {}

Result(addFrom, removeFrom, err, st) ==
    [addFrom |-> addFrom, removeFrom |-> removeFrom, err |-> err, st |-> st]

Resizers == <<"resizeCpusOnlyIfNecessary", "resizeCpusWithDynamicDeviceHints",
              "resizeCpusWithDevices", "resizeCpusOneAtATime",
              "resizeCpusMaxLocalSet", "resizeCpusNow">>

\* cpuset.MustParse of a well-formed list of ranges <<lo, hi>>.
MustParse(ranges) == UNION {ranges[i][1]..ranges[i][2] : i \in 1..Len(ranges)}

\* ta.options.deviceUpdateOnEveryCpu(cpus)
deviceUpdateOnEveryCpu(st, cpus) == [st EXCEPT !.cbs = Append(@, cpus)]

\* Fetch cached topology hint.  An answer of the provider is
\* [err |-> BOOLEAN, hints |-> <<[CPUs |-> ranges], ...>>].
topologyHintCpus(st, dev) ==
    IF dev \in DOMAIN st.cache
    THEN [closeCpuSets |-> st.cache[dev], st |-> [st EXCEPT !.lookups = @ + 1]]
    ELSE LET answer == st.provider[dev]
             cache1 == IF answer.err THEN st.cache @@ (dev :> <<>>)
                       ELSE IF answer.hints = <<>> THEN st.cache
                       ELSE st.cache @@
                            (dev :> [i \in 1..Len(answer.hints) |-> MustParse(answer.hints[i].CPUs)])
         IN  [closeCpuSets |-> IF dev \in DOMAIN cache1 THEN cache1[dev] ELSE <<>>,
              st |-> [st EXCEPT !.cache = cache1,
                                !.queries = [@ EXCEPT ![dev] = @ + 1],
                                !.lookups = @ + 1]]

\* for _, devPath := range ta.options.preferCloseToDevices { ... }
RECURSIVE CloseToDevices(_, _, _, _)
CloseToDevices(st, devPaths, i, allCloseCpuSets) ==
    IF i > Len(devPaths) THEN [all |-> allCloseCpuSets, st |-> st]
    ELSE LET r == topologyHintCpus(st, devPaths[i])
         IN  CloseToDevices(r.st, devPaths, i + 1,
                 IF Len(r.closeCpuSets) > 0 THEN Append(allCloseCpuSets, r.closeCpuSets)
                 ELSE allCloseCpuSets)

\* for _, devPath := range ta.options.preferFarFromDevices { ... }
RECURSIVE FarFromDevices(_, _, _, _, _)
FarFromDevices(st, devPaths, i, freeCpus, allCloseCpuSets) ==
    IF i > Len(devPaths) THEN [all |-> allCloseCpuSets, st |-> st]
    ELSE LET r == topologyHintCpus(st, devPaths[i])
         IN  FarFromDevices(r.st, devPaths, i + 1, freeCpus,
                 allCloseCpuSets \o
                 [k \in 1..Len(r.closeCpuSets) |-> <<freeCpus \ r.closeCpuSets[k]>>])

\* The hint sets of allCloseCpuSets in the order the nested loops visit them.
RECURSIVE Flatten(_)
Flatten(all) == IF all = <<>> THEN <<>> ELSE Head(all) \o Flatten(Tail(all))

\* ApplyHints that takes the first hint, however few CPUs are left.
ApplyFirstHintAlways(remainingFreeCpus, hints, i, delta) ==
    IF Len(hints) = 0 THEN remainingFreeCpus ELSE remainingFreeCpus \cap hints[1]

\* ApplyHints taking a hint only when more than delta CPUs are left.
RECURSIVE ApplyHintsMoreThanDelta(_, _, _, _)
ApplyHintsMoreThanDelta(remainingFreeCpus, hints, i, delta) ==
    IF i > Len(hints) THEN remainingFreeCpus
    ELSE LET newRemainingFreeCpus == remainingFreeCpus \cap hints[i]
         IN  ApplyHintsMoreThanDelta(IF Cardinality(newRemainingFreeCpus) > delta
                                     THEN newRemainingFreeCpus ELSE remainingFreeCpus,
                                     hints, i + 1, delta)

\* delta > 0: intersect the hints, in order, with the remaining free CPUs,
\* taking a hint when at least delta CPUs are left.
RECURSIVE ApplyHints(_, _, _, _)
ApplyHints(remainingFreeCpus, hints, i, delta) ==
    IF i > Len(hints) THEN remainingFreeCpus
    ELSE LET newRemainingFreeCpus == remainingFreeCpus \cap hints[i]
         IN  ApplyHints(IF Cardinality(newRemainingFreeCpus) >= delta
                        THEN newRemainingFreeCpus ELSE remainingFreeCpus,
                        hints, i + 1, delta)

\* 2^n
RECURSIVE Pow2(_)
Pow2(n) == IF n = 0 THEN 1 ELSE 2 * Pow2(n - 1)

\* currentCpuHints[cpu]: every hint set of priority p that has the CPU adds
\* 1 << (len(allCloseCpuSets) - 1 - p).  (uint64; the model has fewer than
\* 64 priorities.)
RECURSIVE SumHints(_, _, _, _)
SumHints(all, cpu, p, n) ==
    IF p > Len(all) THEN 0
    ELSE Cardinality({k \in 1..Len(all[p]) : cpu \in all[p][k]}) * Pow2(n - p)
         + SumHints(all, cpu, p + 1, n)

currentCpuHints(all, currentCpus, cpu) ==
    IF cpu \in currentCpus THEN SumHints(all, cpu, 1, Len(all)) ELSE 0

\* sort.Slice(leastHintedCpus, by hints): insertion of each CPU before the
\* first one with more hints.
RECURSIVE SortByHints(_, _, _)
InsertByHints(sorted, cpu, hintOf) ==
    LET before == {i \in 1..Len(sorted) : hintOf[sorted[i]] <= hintOf[cpu]}
        n == Cardinality(before)
    IN  SubSeq(sorted, 1, n) \o <<cpu>> \o SubSeq(sorted, n + 1, Len(sorted))

SortByHints(list, i, hintOf) ==
    IF i = 0 THEN <<>>
    ELSE InsertByHints(SortByHints(list, i - 1, hintOf), list[i], hintOf)

\* cpuset.CPUSet.UnsortedList ranges over a map: the order of the CPUs is not
\* fixed.  The orders of a call are the ascending and the descending one.
Reverse(s) == [i \in 1..Len(s) |-> s[Len(s) + 1 - i]]

UnsortedList(st, S) == IF st.unsorted = "ascending" THEN List(S) ELSE Reverse(List(S))

\* The orders that can make a difference to a call: the loop over
\* freeFromMaybe.UnsortedList() is in the delta < 0 branch of
\* resizeCpusWithDevices, reached with device preferences only.
UnsortedLists(options, delta) ==
    IF delta < 0 /\ (options.preferCloseToDevices # <<>> \/ options.preferFarFromDevices # <<>>)
    THEN {"ascending", "descending"}
    ELSE {"ascending"}

\* for _, cpu := range freeFromMaybe.UnsortedList() { ... }: CPUs are added
\* until -delta are there.
RECURSIVE FillFromMaybe(_, _, _, _)
FillFromMaybe(currentToFreeForSure, list, i, delta) ==
    IF i > Len(list) \/ Cardinality(currentToFreeForSure) >= -delta
    THEN currentToFreeForSure
    ELSE FillFromMaybe(currentToFreeForSure \cup {list[i]}, list, i + 1, delta)

RECURSIVE nextCpuResizer(_, _, _, _, _, _, _)
RECURSIVE DynamicLoop(_, _, _, _, _, _, _, _, _)
RECURSIVE AddOneAtATime(_, _, _, _, _, _, _, _, _, _, _)
RECURSIVE RemoveOneAtATime(_, _, _, _, _, _, _, _, _)

\* resizeCpusNow: the terminal block of the chain.
resizeCpusNow(h, ta, st, resizers, currentCpus, freeCpus, delta) ==
    Result(freeCpus, currentCpus, ErrNil, st)

\* The fast path without its case delta == 0.
resizeCpusOnlyIfNecessaryNoZero(h, ta, st, resizers, currentCpus, freeCpus, delta) ==
    IF delta > 0 /\ Cardinality(freeCpus) < delta
         THEN Result(freeCpus, emptyCpuSet, ErrNotEnoughFree, st)
    ELSE IF delta > 0 /\ Cardinality(freeCpus) = delta
         THEN Result(freeCpus, emptyCpuSet, ErrNil, st)
    ELSE IF delta < 0 /\ Cardinality(currentCpus) < -delta
         THEN Result(emptyCpuSet, currentCpus, ErrNotEnoughCurrent, st)
    ELSE IF delta < 0 /\ Cardinality(currentCpus) = -delta
         THEN Result(emptyCpuSet, currentCpus, ErrNil, st)
    ELSE nextCpuResizer(h, ta, st, resizers, currentCpus, freeCpus, delta)

\* The fast path without its cases size == delta: only the failures return.
resizeCpusOnlyIfNecessaryNoExact(h, ta, st, resizers, currentCpus, freeCpus, delta) ==
    IF delta = 0 THEN Result(emptyCpuSet, emptyCpuSet, ErrNil, st)
    ELSE IF delta > 0 /\ Cardinality(freeCpus) < delta
         THEN Result(freeCpus, emptyCpuSet, ErrNotEnoughFree, st)
    ELSE IF delta < 0 /\ Cardinality(currentCpus) < -delta
         THEN Result(emptyCpuSet, currentCpus, ErrNotEnoughCurrent, st)
    ELSE nextCpuResizer(h, ta, st, resizers, currentCpus, freeCpus, delta)

\* resizeCpusOnlyIfNecessary: the fast path.
resizeCpusOnlyIfNecessary(h, ta, st, resizers, currentCpus, freeCpus, delta) ==
    IF delta = 0 THEN Result(emptyCpuSet, emptyCpuSet, ErrNil, st)
    ELSE IF delta > 0 /\ Cardinality(freeCpus) < delta
         THEN Result(freeCpus, emptyCpuSet, ErrNotEnoughFree, st)
    ELSE IF delta > 0 /\ Cardinality(freeCpus) = delta
         THEN Result(freeCpus, emptyCpuSet, ErrNil, st)
    ELSE IF delta < 0 /\ Cardinality(currentCpus) < -delta
         THEN Result(emptyCpuSet, currentCpus, ErrNotEnoughCurrent, st)
    ELSE IF delta < 0 /\ Cardinality(currentCpus) = -delta
         THEN Result(emptyCpuSet, currentCpus, ErrNil, st)
    ELSE nextCpuResizer(h, ta, st, resizers, currentCpus, freeCpus, delta)

\* resizeCpusWithDynamicDeviceHints: the callback runs after every CPU.
DynamicLoop(h, ta, st, resizers, currentCpus, freeCpus, delta, r, addedCpus) ==
    LET addedCpu   == List(r.addFrom)[1]
        addedCpus1 == addedCpus \cup {addedCpu}
        current1   == currentCpus \cup {addedCpu}
        free1      == freeCpus \ current1
        st1        == deviceUpdateOnEveryCpu(st, current1)
        r1         == nextCpuResizer(h, ta, st1, resizers, current1, free1, 1)
    IN  IF Cardinality(addedCpus1) >= delta
        THEN Result(addedCpus1 \cup r.addFrom, r.removeFrom, r.err, st)
        ELSE IF r1.err # ErrNil \/ Cardinality(r1.addFrom) < 1
             THEN Result(addedCpus1, r1.removeFrom, r1.err, r1.st)
        ELSE DynamicLoop(h, ta, r1.st, resizers, current1, free1, delta, r1, addedCpus1)

resizeCpusWithDynamicDeviceHints(h, ta, st, resizers, currentCpus, freeCpus, delta) ==
    IF ta.options.deviceUpdateOnEveryCpu = CallbackNil
    THEN nextCpuResizer(h, ta, st, resizers, currentCpus, freeCpus, delta)
    ELSE LET st1 == deviceUpdateOnEveryCpu(st, currentCpus)
             r   == nextCpuResizer(h, ta, st1, resizers, currentCpus, freeCpus, delta)
         IN  IF delta <= 0 THEN r
             ELSE IF r.err # ErrNil \/ Cardinality(r.addFrom) < delta THEN r
             ELSE DynamicLoop(h, ta, r.st, resizers, currentCpus, freeCpus, delta, r, {})

\* resizeCpusWithDevices: static device hints.
resizeCpusWithDevices(h, ta, st, resizers, currentCpus, freeCpus, delta) ==
    LET close == CloseToDevices(st, ta.options.preferCloseToDevices, 1, <<>>)
        far   == FarFromDevices(close.st, ta.options.preferFarFromDevices, 1, freeCpus, close.all)
        allCloseCpuSets == far.all
        st1   == far.st
        \* delta > 0
        remainingFreeCpus == ApplyHints(freeCpus, Flatten(allCloseCpuSets), 1, delta)
        \* delta < 0
        hintOf == [cpu \in currentCpus |-> currentCpuHints(allCloseCpuSets, currentCpus, cpu)]
        leastHintedCpus == SortByHints(List(currentCpus), Cardinality(currentCpus), hintOf)
        maxHints == hintOf[leastHintedCpus[-delta + 1]]
        forSure  == {cpu \in currentCpus : hintOf[cpu] < maxHints}
        maybe    == {cpu \in currentCpus : hintOf[cpu] = maxHints}
        remainingDelta == delta + Cardinality(forSure)
        rm == nextCpuResizer(h, ta, st1, resizers, maybe, freeCpus, remainingDelta)
    IN  IF Len(allCloseCpuSets) = 0
        THEN nextCpuResizer(h, ta, st1, resizers, currentCpus, freeCpus, delta)
        ELSE IF delta > 0
             THEN nextCpuResizer(h, ta, st1, resizers, currentCpus, remainingFreeCpus, delta)
        ELSE IF delta < 0
             THEN IF -delta + 1 > Len(leastHintedCpus)
                  THEN Result(emptyCpuSet, emptyCpuSet, ErrIndexOutOfRange, st1)
                  ELSE Result(freeCpus,
                              FillFromMaybe(forSure, UnsortedList(rm.st, rm.removeFrom), 1, delta),
                              rm.err, rm.st)
        ELSE Result(freeCpus, currentCpus, ErrNil, st1)

\* The loop without the update of the working sets after a CPU is picked.
RECURSIVE AddOneAtATimeKeepSets(_, _, _, _, _, _, _, _, _, _, _)
AddOneAtATimeKeepSets(h, ta, st, resizers, currentCpus, freeCpus, delta, n, addFrom, addFromSuperset, removeFromSuperset) ==
    IF n >= delta THEN Result(addFrom, removeFromSuperset, ErrNil, st)
    ELSE LET r == nextCpuResizer(h, ta, st, resizers, currentCpus, freeCpus, 1)
             addFrom1 == addFrom \cup r.addFrom
         IN  IF r.err # ErrNil
             THEN Result(addFromSuperset, removeFromSuperset, r.err, r.st)
             ELSE IF Cardinality(r.addFrom) # 1
                  THEN Result(addFromSuperset, removeFromSuperset, ErrNoSingleCpuToAdd, r.st)
             ELSE IF Cardinality(addFrom1) # n + 1
                  THEN Result(addFromSuperset, removeFromSuperset, ErrDoubleAdd, r.st)
             ELSE AddOneAtATimeKeepSets(h, ta, r.st, resizers, currentCpus, freeCpus,
                                        delta, n + 1, addFrom1,
                                        addFromSuperset, removeFromSuperset)

\* resizeCpusOneAtATime, delta > 0 with preferSpreadOnPhysicalCores: the
\* loop for n := 0; n < delta; n++.
AddOneAtATime(h, ta, st, resizers, currentCpus, freeCpus, delta, n, addFrom, addFromSuperset, removeFromSuperset) ==
    IF n >= delta THEN Result(addFrom, removeFromSuperset, ErrNil, st)
    ELSE LET r == nextCpuResizer(h, ta, st, resizers, currentCpus, freeCpus, 1)
             addFrom1 == addFrom \cup r.addFrom
         IN  IF r.err # ErrNil
             THEN Result(addFromSuperset, removeFromSuperset, r.err, r.st)
             ELSE IF Cardinality(r.addFrom) # 1
                  THEN Result(addFromSuperset, removeFromSuperset, ErrNoSingleCpuToAdd, r.st)
             ELSE IF Cardinality(addFrom1) # n + 1
                  THEN Result(addFromSuperset, removeFromSuperset, ErrDoubleAdd, r.st)
             ELSE AddOneAtATime(h, ta, r.st, resizers, currentCpus \cup r.addFrom,
                                freeCpus \ r.addFrom, delta, n + 1, addFrom1,
                                addFromSuperset, removeFromSuperset)

\* The loop replaced by one query for all -delta CPUs.
RemoveAllAtOnce(h, ta, st, resizers, currentCpus, freeCpus, delta, n, removeFrom) ==
    LET r == nextCpuResizer(h, ta, st, resizers, currentCpus, freeCpus, delta)
    IN  Result(emptyCpuSet, r.removeFrom, r.err, r.st)

\* resizeCpusOneAtATime, delta <= 0: the loop for n := 0; n < -delta; n++.
RemoveOneAtATime(h, ta, st, resizers, currentCpus, freeCpus, delta, n, removeFrom) ==
    IF n >= -delta THEN Result(emptyCpuSet, removeFrom, ErrNil, st)
    ELSE LET r == nextCpuResizer(h, ta, st, resizers, currentCpus, freeCpus, -1)
         IN  IF r.err # ErrNil THEN Result(emptyCpuSet, removeFrom, r.err, r.st)
             ELSE IF Cardinality(r.removeFrom) # 1
                  THEN Result(emptyCpuSet, removeFrom, ErrNoSingleCpuToFree, r.st)
             ELSE IF Cardinality(removeFrom \cup r.removeFrom) # n + 1
                  THEN Result(emptyCpuSet, removeFrom, ErrDoubleRelease, r.st)
             ELSE RemoveOneAtATime(h, ta, r.st, resizers, currentCpus \ r.removeFrom,
                                   freeCpus \cup r.removeFrom, delta, n + 1,
                                   removeFrom \cup r.removeFrom)

resizeCpusOneAtATime(h, ta, st, resizers, currentCpus, freeCpus, delta) ==
    IF delta > 0
    THEN LET r == nextCpuResizer(h, ta, st, resizers, currentCpus, freeCpus, delta)
         IN  IF ~ta.options.preferSpreadOnPhysicalCores \/ Cardinality(r.addFrom) = delta
             THEN r
             ELSE AddOneAtATime(h, ta, r.st, resizers, currentCpus, freeCpus, delta, 0, {},
                                r.addFrom, r.removeFrom)
    ELSE RemoveOneAtATime(h, ta, st, resizers, currentCpus, freeCpus, delta, 0, {})

\* The stage without the narrowing: the best node is found and the sets it
\* was given are forwarded.
resizeCpusMaxLocalSetNoNarrow(h, ta, st, resizers, currentCpus, freeCpus, delta) ==
    LET tnas == ToAttributedSlice(h, ta.root, currentCpus, freeCpus, delta)
    IN  IF Len(tnas) = 0 THEN Result(freeCpus, currentCpus, ErrNotEnoughFreeInTree, st)
        ELSE nextCpuResizer(h, ta, st, resizers, currentCpus, freeCpus, delta)

\* resizeCpusMaxLocalSet: narrow to the best node of the tree.
resizeCpusMaxLocalSet(h, ta, st, resizers, currentCpus, freeCpus, delta) ==
    LET tnas == ToAttributedSlice(h, ta.root, currentCpus, freeCpus, delta)
        best == SortSliceFirst(h, ta, delta, tnas, 2, tnas[1])
    IN  IF Len(tnas) = 0 THEN Result(freeCpus, currentCpus, ErrNotEnoughFreeInTree, st)
        ELSE nextCpuResizer(h, ta, st, resizers, best.currentCpus, best.freeCpus, delta)

nextCpuResizer(h, ta, st, resizers, currentCpus, freeCpus, delta) ==
    IF Len(resizers) = 0 THEN Result(freeCpus, currentCpus, ErrNoResizerLeft, st)
    ELSE LET remainingResizers == Tail(resizers)
             f == Head(resizers)
         IN  CASE f = "resizeCpusOnlyIfNecessary" ->
                    resizeCpusOnlyIfNecessary(h, ta, st, remainingResizers, currentCpus, freeCpus, delta)
               [] f = "resizeCpusWithDynamicDeviceHints" ->
                    resizeCpusWithDynamicDeviceHints(h, ta, st, remainingResizers, currentCpus, freeCpus, delta)
               [] f = "resizeCpusWithDevices" ->
                    resizeCpusWithDevices(h, ta, st, remainingResizers, currentCpus, freeCpus, delta)
               [] f = "resizeCpusOneAtATime" ->
                    resizeCpusOneAtATime(h, ta, st, remainingResizers, currentCpus, freeCpus, delta)
               [] f = "resizeCpusMaxLocalSet" ->
                    resizeCpusMaxLocalSet(h, ta, st, remainingResizers, currentCpus, freeCpus, delta)
               [] f = "resizeCpusNow" ->
                    resizeCpusNow(h, ta, st, remainingResizers, currentCpus, freeCpus, delta)

\* ResizeCpus: the whole chain.
ResizeCpus(h, ta, st, currentCpus, freeCpus, delta) ==
    nextCpuResizer(h, ta, st, Resizers, currentCpus, freeCpus, delta)

-----------------------------------------------------------------------------
(* The state machine: a caller with one topology tree builds an allocator  *)
(* and calls ResizeCpus on it, any number of times.                        *)

\* Bounds of the model.
MaxDelta      == 2      \* ResizeCpus is called with -MaxDelta <= delta <= MaxDelta
MaxQueries    == 2      \* no new call once the provider was asked this often for a path

\* Two L2 caches, each over one core of two threads: CPUs 0..3.
SysTwoCaches ==
    [packages |-> <<[id |-> 0, dies |-> <<[id |-> 0, nodes |-> <<[id |-> 0,
        caches |-> <<[id |-> 0, cpus |-> {0, 1}], [id |-> 1, cpus |-> {2, 3}]>>]>>]>>]>>,
     threads |-> [c \in 0..3 |-> {2 * (c \div 2), 2 * (c \div 2) + 1}]]

Systems == {SysTwoCaches}

Hint(ranges) == [CPUs |-> ranges]

\* What the hint provider answers for the device paths of this system: two
\* overlapping hints, one hint, a hint that reaches outside the tree, an
\* error, no hint.
ProviderTwoCaches ==
    [dev \in {"/devA", "/devB", "/devOut", "/devErr", "/devNone"} |->
        CASE dev = "/devA"    -> [err |-> FALSE, hints |-> <<Hint(<<<<0, 1>>>>), Hint(<<<<1, 2>>>>)>>]
          [] dev = "/devB"    -> [err |-> FALSE, hints |-> <<Hint(<<<<2, 3>>>>)>>]
          [] dev = "/devOut"  -> [err |-> FALSE, hints |-> <<Hint(<<<<4, 4>>>>)>>]
          [] dev = "/devErr"  -> [err |-> TRUE,  hints |-> <<>>]
          [] dev = "/devNone" -> [err |-> FALSE, hints |-> <<>>]]

\* The device preferences of an option record: close to, far from.
DevicePreferences ==
    {<< <<>>, <<>> >>,
     << <<"/devA">>, <<>> >>,
     << <<"/devErr", "/devNone", "/devOut">>, <<"/devB">> >>}

Options ==
    {[topologyBalancing           |-> b,
      preferSpreadOnPhysicalCores |-> s,
      preferCloseToDevices        |-> d[1],
      preferFarFromDevices        |-> d[2],
      virtDevCpusets              |-> EmptyMap,
      deviceUpdateOnEveryCpu      |-> cb] :
        b \in BOOLEAN, s \in BOOLEAN, d \in DevicePreferences,
        cb \in {CallbackNil, CallbackSet}}

NoSplit == [root |-> nil]
Idle    == [pc |-> "idle"]

TreeCpus == IF root = nil THEN {} ELSE nodes[root].cpus

\* The CPUs a caller can pass: those of the tree and one CPU that is not in
\* the tree (the allocator works on a branch of the system's CPUs).
AllCpus == TreeCpus \cup {Cardinality(TreeCpus)}

Init ==
    /\ \E sys \in Systems :
         \E t \in {NewCpuTreeFromSystem(<<>>, sys)} :
           nodes = t.h /\ root = t.p
    /\ split = NoSplit
    /\ tas = <<>>
    /\ provider = ProviderTwoCaches
    /\ queries = [d \in DOMAIN provider |-> 0]
    /\ call = <<>>
    /\ NoControllers

NewAllocatorAction(options) ==
    /\ root # nil
    /\ tas = <<>>
    /\ LET cls == [cpu \in nodes[root].cpus |->
                     SiblingIndex(nodes, FindLeafWithCpu(nodes, root, cpu))]
       IN  \E order \in Orders(Classes(nodes, root, cls)) :
             \E a \in {NewAllocator(nodes, root, options, order)} :
                 /\ nodes' = a.h
                 /\ tas' = Append(tas, a.ta)
                 /\ call' = Append(call, Idle)
    /\ UNCHANGED <<root, split, provider, queries>>
    /\ UNCHANGED controlVars

\* The call ResizeCpus(currentCpus, freeCpus, delta) on allocator a.  The
\* caller's sets are disjoint.
ResizeCpusAction(a, currentCpus, freeCpus, delta) ==
    /\ a \in 1..Len(tas)
    /\ call[a].pc = "idle"
    /\ \A d \in DOMAIN queries : queries[d] < MaxQueries
    /\ currentCpus \cap freeCpus = {}
    /\ \E unsorted \in UnsortedLists(tas[a].options, delta) :
       LET st == [cache |-> tas[a].cacheCloseCpuSets, provider |-> provider,
                  queries |-> queries, lookups |-> 0, cbs |-> <<>>,
                  unsorted |-> unsorted]
       IN  \E r \in {ResizeCpus(nodes, tas[a], st, currentCpus, freeCpus, delta)} :
           /\ call' = [call EXCEPT ![a] =
                         [pc |-> "returned", currentCpus |-> currentCpus,
                          freeCpus |-> freeCpus, delta |-> delta,
                          addFrom |-> r.addFrom, removeFrom |-> r.removeFrom,
                          err |-> r.err, cbs |-> r.st.cbs, lookups |-> r.st.lookups]]
           /\ tas' = [tas EXCEPT ![a].cacheCloseCpuSets = r.st.cache]
           /\ queries' = r.st.queries
    /\ UNCHANGED <<nodes, root, split, provider>>
    /\ UNCHANGED controlVars

\* The caller has taken the result.
Return ==
    /\ \E a \in 1..Len(call) : call[a].pc = "returned"
    /\ call' = [a \in 1..Len(call) |-> Idle]
    /\ UNCHANGED <<nodes, root, split, tas, provider, queries>>
    /\ UNCHANGED controlVars

Next ==
    \/ \E options \in Options : NewAllocatorAction(options)
    \/ \E currentCpus \in SUBSET AllCpus :
         \E freeCpus \in SUBSET (AllCpus \ currentCpus) :
           \E delta \in (-MaxDelta)..MaxDelta :
             ResizeCpusAction(1, currentCpus, freeCpus, delta)
    \/ Return

Spec == Init /\ [][Next]_vars

-----------------------------------------------------------------------------
(* Direct calls of SplitLevel, on trees of systems whose cores differ in   *)
(* their number of threads and whose l2cs map is iterated in either order. *)

MaxClasses == 2     \* a classifier of SplitLevelAction gives classes 0..MaxClasses-1

\* Cache $0 over a core of two threads, cache $1 over a core of one thread.
SysMixedThreads ==
    [packages |-> <<[id |-> 0, dies |-> <<[id |-> 0, nodes |-> <<[id |-> 0,
        caches |-> <<[id |-> 0, cpus |-> {0, 1}], [id |-> 1, cpus |-> {2}]>>]>>]>>]>>,
     threads |-> (0 :> {0, 1}) @@ (1 :> {0, 1}) @@ (2 :> {2})]

\* SysTwoCaches with the l2cs map iterated in the other order.
SysTwoCachesSwapped ==
    [packages |-> <<[id |-> 0, dies |-> <<[id |-> 0, nodes |-> <<[id |-> 0,
        caches |-> <<[id |-> 1, cpus |-> {2, 3}], [id |-> 0, cpus |-> {0, 1}]>>]>>]>>]>>,
     threads |-> [c \in 0..3 |-> {2 * (c \div 2), 2 * (c \div 2) + 1}]]

SplitSystems == {SysTwoCaches, SysTwoCachesSwapped, SysMixedThreads}

CPUTopologyLevels ==
    {CPUTopologyLevelUndefined, CPUTopologyLevelSystem, CPUTopologyLevelPackage,
     CPUTopologyLevelDie, CPUTopologyLevelNuma, CPUTopologyLevelL2Cache,
     CPUTopologyLevelCore, CPUTopologyLevelThread}

\* Allocators that use no device hint and no callback.
OptionsNoDevices ==
    {[topologyBalancing |-> b, preferSpreadOnPhysicalCores |-> s,
      preferCloseToDevices |-> <<>>, preferFarFromDevices |-> <<>>,
      virtDevCpusets |-> EmptyMap, deviceUpdateOnEveryCpu |-> CallbackNil] :
        b \in BOOLEAN, s \in BOOLEAN}

InitSplit ==
    /\ \E sys \in SplitSystems :
         \E t \in {NewCpuTreeFromSystem(<<>>, sys)} :
           nodes = t.h /\ root = t.p
    /\ split = NoSplit
    /\ tas = <<>>
    /\ provider = ProviderTwoCaches
    /\ queries = [d \in DOMAIN provider |-> 0]
    /\ call = <<>>
    /\ NoControllers

\* root.SplitLevel(splitLevel, cpuClassifier); the new tree is kept in split.
SplitLevelAction(splitLevel, cpuClassifier) ==
    /\ root # nil
    /\ split = NoSplit
    /\ tas = <<>>
    /\ \E order \in Orders(Classes(nodes, root, cpuClassifier)) :
         \E s \in {SplitLevel(nodes, root, splitLevel, cpuClassifier, order)} :
             /\ nodes' = s.h
             /\ split' = [root |-> s.p, level |-> splitLevel]
    /\ UNCHANGED <<root, tas, provider, queries, call>>
    /\ UNCHANGED controlVars

NextSplit ==
    \/ \E splitLevel \in CPUTopologyLevels :
         \E cpuClassifier \in [TreeCpus -> 0..(MaxClasses - 1)] :
           SplitLevelAction(splitLevel, cpuClassifier)
    \/ \E options \in OptionsNoDevices : split = NoSplit /\ NewAllocatorAction(options)

SpecSplit == InitSplit /\ [][NextSplit]_vars

-----------------------------------------------------------------------------
(* Two allocators built with the same options from the tree of a system    *)
(* with one package, one die, one NUMA node, the L2 caches $0 = {0-3} and  *)
(* $1 = {4-7} and the cores {0,1}, {2,3}, {4,5}, {6,7}.  The caller's free *)
(* CPUs are the CPUs of the tree that are not current; every call on the   *)
(* first allocator is repeated on the second.                              *)

Sys8 ==
    [packages |-> <<[id |-> 0, dies |-> <<[id |-> 0, nodes |-> <<[id |-> 0,
        caches |-> <<[id |-> 0, cpus |-> 0..3], [id |-> 1, cpus |-> 4..7]>>]>>]>>]>>,
     threads |-> [c \in 0..7 |-> {2 * (c \div 2), 2 * (c \div 2) + 1}]]

MaxGrow == 4    \* on the tree of Sys8 ResizeCpus is called with -MaxDelta <= delta <= MaxGrow

InitScenario ==
    /\ \E t \in {NewCpuTreeFromSystem(<<>>, Sys8)} :
           nodes = t.h /\ root = t.p
    /\ split = NoSplit
    /\ tas = <<>>
    /\ provider = ProviderTwoCaches
    /\ queries = [d \in DOMAIN provider |-> 0]
    /\ call = <<>>
    /\ NoControllers

\* A second NewAllocator call on the same tree with the same options.
NewAllocatorAgain ==
    /\ Len(tas) = 1
    /\ call[1].pc = "idle"
    /\ LET cls == [cpu \in nodes[root].cpus |->
                     SiblingIndex(nodes, FindLeafWithCpu(nodes, root, cpu))]
       IN  \E order \in Orders(Classes(nodes, root, cls)) :
             \E a \in {NewAllocator(nodes, root, tas[1].options, order)} :
                 /\ nodes' = a.h
                 /\ tas' = Append(tas, a.ta)
                 /\ call' = Append(call, Idle)
    /\ UNCHANGED <<root, split, provider, queries>>
    /\ UNCHANGED controlVars

\* The call that the first allocator has answered, made on the second.
ResizeCpusAgain ==
    /\ Len(tas) = 2
    /\ call[1].pc = "returned"
    /\ ResizeCpusAction(2, call[1].currentCpus, call[1].freeCpus, call[1].delta)

NextScenario ==
    \/ \E options \in OptionsNoDevices : NewAllocatorAction(options)
    \/ NewAllocatorAgain
    \/ \E currentCpus \in SUBSET TreeCpus :
         \E delta \in (-MaxDelta)..MaxGrow :
           ResizeCpusAction(1, currentCpus, TreeCpus \ currentCpus, delta)
    \/ ResizeCpusAgain
    \/ Return

SpecScenario == InitScenario /\ [][NextScenario]_vars

-----------------------------------------------------------------------------
(* Properties of ResizeCpus, stated on the calls that have returned.       *)

Returned == {a \in 1..Len(call) : call[a].pc = "returned"}

\* C1: a call that returns no error returns at least delta CPUs to add from
\* when delta > 0 and at least -delta CPUs to remove from when delta < 0.
SizeBound ==
    \A a \in Returned :
        call[a].err = ErrNil =>
            /\ call[a].delta > 0 => Cardinality(call[a].addFrom) >= call[a].delta
            /\ call[a].delta < 0 => Cardinality(call[a].removeFrom) >= -call[a].delta

\* A growth by two CPUs that went through the callback, the device hints
\* and the one-at-a-time stage of an allocator that spreads on physical
\* cores, and returned no error.
SizeBoundWitness ==
    \E a \in Returned :
        /\ call[a].err = ErrNil
        /\ call[a].delta = 2
        /\ Cardinality(call[a].freeCpus) > 2
        /\ Len(call[a].cbs) > 1
        /\ call[a].lookups > 0
        /\ tas[a].options.preferSpreadOnPhysicalCores

\* C2: with or without error, the CPUs to add from are free CPUs of the
\* caller and the CPUs to remove from are current CPUs of the caller.
Containment ==
    \A a \in Returned :
        /\ call[a].addFrom \subseteq call[a].freeCpus
        /\ call[a].removeFrom \subseteq call[a].currentCpus

\* C3: the CPUs to add from have nothing in common with the caller's
\* current CPUs, the CPUs to remove from nothing with the caller's free CPUs.
Disjointness ==
    \A a \in Returned :
        /\ call[a].addFrom \cap call[a].currentCpus = {}
        /\ call[a].removeFrom \cap call[a].freeCpus = {}

\* C4: delta = 0 returns two empty sets and no error, and no later stage is
\* consulted: the callback is not called, no device hint is looked up.
ZeroDelta ==
    \A a \in Returned :
        call[a].delta = 0 =>
            /\ call[a].addFrom = {} /\ call[a].removeFrom = {}
            /\ call[a].err = ErrNil
            /\ call[a].cbs = <<>>
            /\ call[a].lookups = 0

\* A call with delta = 0 on an allocator that has a callback and device
\* preferences, with current and free CPUs at hand.
ZeroDeltaWitness ==
    \E a \in Returned :
        /\ call[a].delta = 0
        /\ call[a].currentCpus # {} /\ call[a].freeCpus # {}
        /\ tas[a].options.deviceUpdateOnEveryCpu = CallbackSet
        /\ tas[a].options.preferCloseToDevices # <<>>

\* C5: when delta > 0 and exactly delta CPUs are free the call returns the
\* free CPUs and nothing to remove, when delta < 0 and exactly -delta CPUs
\* are current it returns the current CPUs and nothing to add; no error.
Saturation ==
    \A a \in Returned :
        /\ (call[a].delta > 0 /\ Cardinality(call[a].freeCpus) = call[a].delta) =>
               /\ call[a].addFrom = call[a].freeCpus
               /\ call[a].removeFrom = {}
               /\ call[a].err = ErrNil
        /\ (call[a].delta < 0 /\ Cardinality(call[a].currentCpus) = -call[a].delta) =>
               /\ call[a].removeFrom = call[a].currentCpus
               /\ call[a].addFrom = {}
               /\ call[a].err = ErrNil

\* All free CPUs are asked for, one of them is not in the tree, and the
\* allocator has device preferences, a callback and spreads on cores.
SaturationWitness ==
    \E a \in Returned :
        /\ call[a].delta = 2
        /\ Cardinality(call[a].freeCpus) = 2
        /\ ~(call[a].freeCpus \subseteq TreeCpus)
        /\ call[a].currentCpus # {}
        /\ tas[a].options.preferCloseToDevices # <<>>
        /\ tas[a].options.deviceUpdateOnEveryCpu = CallbackSet
        /\ tas[a].options.preferSpreadOnPhysicalCores

\* C6: a call that fails for lack of free CPUs, in the fast path or in the
\* max-local-set stage, returns (free, {}); one that fails for lack of
\* current CPUs returns ({}, current).
ErrorTable ==
    \A a \in Returned :
        /\ call[a].err \in {ErrNotEnoughFree, ErrNotEnoughFreeInTree} =>
               call[a].addFrom = call[a].freeCpus /\ call[a].removeFrom = {}
        /\ call[a].err = ErrNotEnoughCurrent =>
               call[a].addFrom = {} /\ call[a].removeFrom = call[a].currentCpus

-----------------------------------------------------------------------------
(* Properties of the trees.                                                *)

\* The trees at hand: the caller's, the one of a direct SplitLevel call and
\* the ones the allocators work on.
TreeRoots ==
    ({root, split.root} \cup {tas[a].root : a \in 1..Len(tas)}) \ {nil}

\* The trees that SplitLevel returned.
SplitRoots == TreeRoots \ {root}

ChildrenCpus(h, t) == UNION {h[h[t].children[i]].cpus : i \in 1..Len(h[t].children)}

\* The synthetic class children of a tree: they have the level of their parent.
ClassChildren(h, t) ==
    {n \in TreeNodes(h, t) : h[n].parent # nil /\ h[h[n].parent].level = h[n].level}

\* C8: in the tree built from the system with AddChild/AddCpus and in every
\* tree SplitLevel returned, the cpus of an internal node are the union of
\* its children's cpus and a thread leaf has exactly one CPU.
TreeUnionInvariant ==
    \A r \in TreeRoots :
        \A n \in TreeNodes(nodes, r) :
            /\ nodes[n].children # <<>> => nodes[n].cpus = ChildrenCpus(nodes, n)
            /\ (nodes[n].children = <<>> /\ nodes[n].level = CPUTopologyLevelThread)
                   => Cardinality(nodes[n].cpus) = 1

\* C9: in a tree SplitLevel returned no node below a class child has an
\* empty cpus set, the direct children of the class child included.
EmptySubtreesPruned ==
    \A r \in SplitRoots :
        \A c \in ClassChildren(nodes, r) :
            \A n \in TreeNodes(nodes, c) \ {c} : nodes[n].cpus # {}

-----------------------------------------------------------------------------
(* Properties of the calls on the tree of Sys8.                            *)

\* C7: two calls with the same current CPUs, free CPUs and delta on
\* allocators built from the same tree with the same options return the
\* same CPUs to add from and the same CPUs to remove from.
Determinism ==
    \A a, b \in Returned :
        (/\ tas[a].options = tas[b].options
         /\ call[a].currentCpus = call[b].currentCpus
         /\ call[a].freeCpus = call[b].freeCpus
         /\ call[a].delta = call[b].delta)
        => (/\ call[a].addFrom = call[b].addFrom
            /\ call[a].removeFrom = call[b].removeFrom)

\* The call of the first scenario: topology balancing, no other option, no
\* current CPU, the CPUs 0..7 free, delta = 2.
SpreadAllocCall(a) ==
    /\ a \in Returned
    /\ tas[a].options.topologyBalancing
    /\ ~tas[a].options.preferSpreadOnPhysicalCores
    /\ tas[a].options.preferCloseToDevices = <<>>
    /\ tas[a].options.preferFarFromDevices = <<>>
    /\ tas[a].options.deviceUpdateOnEveryCpu = CallbackNil
    /\ call[a].currentCpus = {}
    /\ call[a].freeCpus = 0..7
    /\ call[a].delta = 2

\* C10 as stated: the call of the first scenario returns add_from = {0..7},
\* a pool with CPUs of both L2 caches from which {0, 4} can be picked.
SpreadAllocWholeSystem ==
    \A a \in 1..Len(call) :
        SpreadAllocCall(a) => call[a].addFrom = 0..7 /\ call[a].err = ErrNil

\* C10: the call of the first scenario returns, without error, the two CPUs
\* of the core cpu0, add_from = {0, 1}, and nothing to remove.
SpreadAllocFirstCore ==
    \A a \in 1..Len(call) :
        SpreadAllocCall(a) =>
            /\ call[a].addFrom = {0, 1}
            /\ call[a].removeFrom = {}
            /\ call[a].err = ErrNil

SpreadAllocWitness == \E a \in 1..Len(call) : SpreadAllocCall(a)

\* The call of the second scenario: no option set, no current CPU, the
\* CPUs 0..7 free, delta = 2.
PackAllocCall(a) ==
    /\ a \in Returned
    /\ ~tas[a].options.topologyBalancing
    /\ ~tas[a].options.preferSpreadOnPhysicalCores
    /\ tas[a].options.preferCloseToDevices = <<>>
    /\ tas[a].options.preferFarFromDevices = <<>>
    /\ tas[a].options.deviceUpdateOnEveryCpu = CallbackNil
    /\ call[a].currentCpus = {}
    /\ call[a].freeCpus = 0..7
    /\ call[a].delta = 2

\* The nodes of a level in the tree of allocator a.
NodesOfLevel(a, level) ==
    {n \in TreeNodes(nodes, tas[a].root) : nodes[n].level = level}

\* C11 as stated: the call of the second scenario returns the free CPUs of
\* one L2 cache node, and the two lowest CPUs of add_from are {0, 1}.
PackAllocOneCache ==
    \A a \in 1..Len(call) :
        PackAllocCall(a) =>
            /\ \E n \in NodesOfLevel(a, CPUTopologyLevelL2Cache) :
                   call[a].addFrom = nodes[n].cpus \cap call[a].freeCpus
            /\ Len(List(call[a].addFrom)) >= 2
            /\ {List(call[a].addFrom)[1], List(call[a].addFrom)[2]} = {0, 1}

\* C11: the call of the second scenario returns, without error, the free
\* CPUs of one core node, add_from = {0, 1}, the only pick of two CPUs.
PackAllocOneCore ==
    \A a \in 1..Len(call) :
        PackAllocCall(a) =>
            /\ \E n \in NodesOfLevel(a, CPUTopologyLevelCore) :
                   call[a].addFrom = nodes[n].cpus \cap call[a].freeCpus
            /\ call[a].addFrom = {0, 1}
            /\ call[a].removeFrom = {}
            /\ call[a].err = ErrNil

PackAllocWitness == \E a \in 1..Len(call) : PackAllocCall(a)

\* The calls of the third scenario: topology balancing and spread on
\* physical cores, no current CPU, the CPUs 0..7 free, delta from 2 up to
\* the number of cores.
CoreSpreadCall(a) ==
    /\ a \in Returned
    /\ tas[a].options.topologyBalancing
    /\ tas[a].options.preferSpreadOnPhysicalCores
    /\ tas[a].options.preferCloseToDevices = <<>>
    /\ tas[a].options.preferFarFromDevices = <<>>
    /\ tas[a].options.deviceUpdateOnEveryCpu = CallbackNil
    /\ call[a].currentCpus = {}
    /\ call[a].freeCpus = 0..7
    /\ call[a].delta >= 2
    /\ call[a].delta <= Cardinality({n \in TreeNodes(nodes, root) : nodes[n].level = CPUTopologyLevelCore})

\* The physical core of a CPU: its core node in the caller's tree.
CoreOf(cpu) ==
    CHOOSE n \in TreeNodes(nodes, root) :
        nodes[n].level = CPUTopologyLevelCore /\ cpu \in nodes[n].cpus

\* C12: a call of the third scenario returns without error CPUs to add from
\* of which no two are on the same physical core, whichever class child of
\* the split tree was created first.
PhysicalCoreSpread ==
    \A a \in 1..Len(call) :
        CoreSpreadCall(a) =>
            /\ call[a].err = ErrNil
            /\ \A c, d \in call[a].addFrom : c # d => CoreOf(c) # CoreOf(d)

\* A call of the third scenario for three CPUs on an allocator whose split
\* tree has the class 1 child before the class 0 child.
PhysicalCoreSpreadWitness ==
    \E a \in 1..Len(call) :
        /\ CoreSpreadCall(a)
        /\ call[a].delta = 3
        /\ Cardinality(call[a].addFrom) = 3
        /\ \E n \in NodesOfLevel(a, CPUTopologyLevelNuma) :
               /\ nodes[n].children # <<>>
               /\ nodes[nodes[n].children[1]].name = nodes[n].name \o StrClass \o Itoa(1)

\* The numbers of CPUs of S in the nodes on the path from the root of a
\* tree down to node n.
RECURSIVE PathCounts(_, _, _)
PathCounts(h, n, S) ==
    (IF h[n].parent = nil THEN <<>> ELSE PathCounts(h, h[n].parent, S))
    \o <<Cardinality(h[n].cpus \cap S)>>

\* The highest level at which two paths differ in their counts, 0 if none.
HighestDifference(x, y) ==
    LET d == {i \in 1..Len(x) : i <= Len(y) /\ x[i] # y[i]}
    IN  IF d = {} THEN 0 ELSE CHOOSE i \in d : \A j \in d : i <= j

\* C13 as stated: the rule of ShrinkDefragments, with remove_from = {4} for
\* current = {0, 1, 4} on every allocator without device hints.
ShrinkDefragmentsAnyOptions ==
    \A a \in Returned :
        (/\ call[a].delta = -1
         /\ Cardinality(call[a].currentCpus) > 1
         /\ tas[a].options.preferCloseToDevices = <<>>
         /\ tas[a].options.preferFarFromDevices = <<>>)
        => /\ call[a].err = ErrNil
           /\ \E c \in call[a].currentCpus :
                /\ call[a].removeFrom = {c}
                /\ \A d \in call[a].currentCpus :
                     LET pc == PathCounts(nodes, FindLeafWithCpu(nodes, tas[a].root, c), call[a].currentCpus)
                         pd == PathCounts(nodes, FindLeafWithCpu(nodes, tas[a].root, d), call[a].currentCpus)
                         i  == HighestDifference(pc, pd)
                     IN  i # 0 => pc[i] < pd[i]
           /\ call[a].currentCpus = {0, 1, 4} => call[a].removeFrom = {4}

\* C13: a call with delta = -1, no device hints and more than one current
\* CPU returns one current CPU to remove; against every other current CPU,
\* at the highest level where the two paths differ in their numbers of
\* current CPUs, it is in the subtree with fewer.  Without spread on
\* physical cores, current = {0, 1, 4} gives remove_from = {4}.
ShrinkDefragments ==
    \A a \in Returned :
        (/\ call[a].delta = -1
         /\ Cardinality(call[a].currentCpus) > 1
         /\ tas[a].options.preferCloseToDevices = <<>>
         /\ tas[a].options.preferFarFromDevices = <<>>)
        => /\ call[a].err = ErrNil
           /\ \E c \in call[a].currentCpus :
                /\ call[a].removeFrom = {c}
                /\ \A d \in call[a].currentCpus :
                     LET pc == PathCounts(nodes, FindLeafWithCpu(nodes, tas[a].root, c), call[a].currentCpus)
                         pd == PathCounts(nodes, FindLeafWithCpu(nodes, tas[a].root, d), call[a].currentCpus)
                         i  == HighestDifference(pc, pd)
                     IN  i # 0 => pc[i] < pd[i]
           /\ (~tas[a].options.preferSpreadOnPhysicalCores /\ call[a].currentCpus = {0, 1, 4})
                => call[a].removeFrom = {4}

\* The call of the fourth scenario has returned.
ShrinkDefragmentsWitness ==
    \E a \in Returned :
        /\ call[a].delta = -1
        /\ call[a].currentCpus = {0, 1, 4}
        /\ call[a].freeCpus = {2, 3, 5, 6, 7}
        /\ ~tas[a].options.preferSpreadOnPhysicalCores
        /\ call[a].removeFrom = {4}

-----------------------------------------------------------------------------
(* Static device hints on the two-cache topology of Sys8: one allocator    *)
(* with device preferences and no callback; the caller's free CPUs are the *)
(* CPUs of the tree that are not current.                                  *)

\* The hint provider of this system: /devA is close to the core {4, 5},
\* /devB has two hints that overlap in CPU 3, /devNone none.
ProviderSys8 ==
    [dev \in {"/devA", "/devB", "/devNone"} |->
        CASE dev = "/devA"    -> [err |-> FALSE, hints |-> <<Hint(<<<<4, 5>>>>)>>]
          [] dev = "/devB"    -> [err |-> FALSE, hints |-> <<Hint(<<<<2, 3>>>>), Hint(<<<<3, 3>>, <<6, 6>>>>)>>]
          [] dev = "/devNone" -> [err |-> FALSE, hints |-> <<>>]]

OptionsDevices ==
    {[topologyBalancing           |-> b,
      preferSpreadOnPhysicalCores |-> s,
      preferCloseToDevices        |-> close,
      preferFarFromDevices        |-> far,
      virtDevCpusets              |-> EmptyMap,
      deviceUpdateOnEveryCpu      |-> CallbackNil] :
        b \in BOOLEAN, s \in BOOLEAN,
        close \in {<<>>, <<"/devA">>, <<"/devNone", "/devA", "/devB">>},
        far \in {<<>>, <<"/devA">>}}

InitDevices ==
    /\ \E t \in {NewCpuTreeFromSystem(<<>>, Sys8)} :
           nodes = t.h /\ root = t.p
    /\ split = NoSplit
    /\ tas = <<>>
    /\ provider = ProviderSys8
    /\ queries = [d \in DOMAIN provider |-> 0]
    /\ call = <<>>
    /\ NoControllers

NextDevices ==
    \/ \E options \in OptionsDevices : NewAllocatorAction(options)
    \/ \E currentCpus \in SUBSET TreeCpus :
         \E delta \in (-MaxDelta)..MaxDelta :
           ResizeCpusAction(1, currentCpus, TreeCpus \ currentCpus, delta)
    \/ Return

SpecDevices == InitDevices /\ [][NextDevices]_vars

\* The static hint list of a returned call, in priority order: the cached
\* hints of the close devices, then for every hint of a far device the free
\* CPUs outside it.
RECURSIVE HintsOf(_, _, _)
HintsOf(cache, devPaths, i) ==
    IF i > Len(devPaths) THEN <<>>
    ELSE (IF devPaths[i] \in DOMAIN cache THEN cache[devPaths[i]] ELSE <<>>)
         \o HintsOf(cache, devPaths, i + 1)

StaticHints(a) ==
    LET close == HintsOf(tas[a].cacheCloseCpuSets, tas[a].options.preferCloseToDevices, 1)
        far   == HintsOf(tas[a].cacheCloseCpuSets, tas[a].options.preferFarFromDevices, 1)
    IN  close \o [k \in 1..Len(far) |-> call[a].freeCpus \ far[k]]

\* The running set after the hints of the set applied that come before hint i.
Running(a, hints, applied, i) ==
    {cpu \in call[a].freeCpus : \A j \in applied : j < i => cpu \in hints[j]}

\* A growth with static hints that has more free CPUs than it asks for.
DeviceGrowthCall(a) ==
    /\ call[a].delta > 0
    /\ Cardinality(call[a].freeCpus) > call[a].delta
    /\ Len(StaticHints(a)) > 0

DeviceFarShrink ==
    \A a \in Returned :
        (/\ tas[a].options.preferCloseToDevices = <<>>
         /\ tas[a].options.preferFarFromDevices = <<"/devA">>
         /\ call[a].currentCpus = {0, 4, 5}
         /\ call[a].freeCpus = {1, 2, 3, 6, 7}
         /\ call[a].delta = -2)
        => call[a].removeFrom = {4, 5}

\* C16: over the calls on an allocator the hint provider is asked at most
\* once for a device path, whatever it answers, and an entry of the hint
\* cache is never changed or removed.
HintCacheOnce ==
    [][/\ \A dev \in DOMAIN queries : queries'[dev] <= 1
       /\ \A a \in 1..Len(tas) :
            \A dev \in DOMAIN tas[a].cacheCloseCpuSets :
                /\ dev \in DOMAIN tas'[a].cacheCloseCpuSets
                /\ tas'[a].cacheCloseCpuSets[dev] = tas[a].cacheCloseCpuSets[dev]]_vars

\* C17: no step of an allocator (NewAllocator with its SplitLevel, any
\* ResizeCpus call) changes a node of the caller's tree: name, level, parent,
\* children and cpus of every node stay as they are.
CallerTreeUnchanged ==
    [][/\ root' = root
       /\ \A n \in TreeNodes(nodes, root) :
            n \in DOMAIN nodes' /\ nodes'[n] = nodes[n]]_vars

\* An allocator that works on a split copy of the tree has answered a call.
CallerTreeUnchangedWitness ==
    \E a \in Returned :
        /\ tas[a].options.preferSpreadOnPhysicalCores
        /\ tas[a].root # root
        /\ call[a].delta # 0
        /\ call[a].err = ErrNil

\* A successful growth without device hints, callback and spread on physical
\* cores that has more free CPUs than it asks for.
NarrowingCall(a) ==
    /\ call[a].delta > 0
    /\ Cardinality(call[a].freeCpus) > call[a].delta
    /\ call[a].err = ErrNil
    /\ tas[a].options.preferCloseToDevices = <<>>
    /\ tas[a].options.preferFarFromDevices = <<>>
    /\ tas[a].options.deviceUpdateOnEveryCpu = CallbackNil
    /\ ~tas[a].options.preferSpreadOnPhysicalCores

\* The nodes of the allocator's tree with at least delta free CPUs.
Qualifying(a) ==
    {n \in TreeNodes(nodes, tas[a].root) :
        Cardinality(nodes[n].cpus \cap call[a].freeCpus) >= call[a].delta}

\* Node n comes before node m of the same depth in the allocate order: more
\* current CPUs at the highest level where the paths differ, else free CPUs
\* there as the balancing flag says, else the lesser name.
AllocatesBefore(a, n, m) ==
    LET cn == PathCounts(nodes, n, call[a].currentCpus)
        cm == PathCounts(nodes, m, call[a].currentCpus)
        fn == PathCounts(nodes, n, call[a].freeCpus)
        fm == PathCounts(nodes, m, call[a].freeCpus)
        i  == HighestDifference(cn, cm)
        j  == HighestDifference(fn, fm)
    IN  IF i # 0 THEN cn[i] > cm[i]
        ELSE IF j # 0
             THEN (IF tas[a].options.topologyBalancing THEN fn[j] > fm[j] ELSE fn[j] < fm[j])
        ELSE StrLess(nodes[n].name, nodes[m].name)

\* C18: a successful growth without device hints, callback and spread, with
\* more free CPUs than delta, returns the free CPUs of one node N with at
\* least delta free CPUs such that no deeper node has delta free CPUs and N
\* comes before every other such node of its depth in the allocate order.
MaxLocalSetNarrowing ==
    \A a \in Returned :
        NarrowingCall(a) =>
        \E n \in Qualifying(a) :
            /\ call[a].addFrom = nodes[n].cpus \cap call[a].freeCpus
            /\ \A m \in Qualifying(a) \ {n} :
                 /\ Depth(nodes, m) <= Depth(nodes, n)
                 /\ Depth(nodes, m) = Depth(nodes, n) => AllocatesBefore(a, n, m)

\* A growth by 2 next to one current CPU has returned the core beside it.
MaxLocalSetNarrowingWitness ==
    \E a \in Returned :
        /\ NarrowingCall(a)
        /\ call[a].delta = 2
        /\ call[a].currentCpus = {0}
        /\ call[a].addFrom = {2, 3}

-----------------------------------------------------------------------------
(* The attributed slices: on the trees of SplitSystems an allocator        *)
(* without device preferences builds the slice that resizeCpusMaxLocalSet  *)
(* sorts, for any disjoint current and free CPUs of the tree.              *)

\* ta.root.ToAttributedSlice(currentCpus, freeCpus, filter) with the filter
\* of resizeCpusMaxLocalSet for delta; the slice is kept in call[a].
ToAttributedSliceAction(a, currentCpus, freeCpus, delta) ==
    /\ a \in 1..Len(tas)
    /\ call[a].pc = "idle"
    /\ currentCpus \cap freeCpus = {}
    /\ call' = [call EXCEPT ![a] =
                  [pc |-> "sliced", currentCpus |-> currentCpus,
                   freeCpus |-> freeCpus, delta |-> delta,
                   tnas |-> ToAttributedSlice(nodes, tas[a].root, currentCpus, freeCpus, delta)]]
    /\ UNCHANGED <<nodes, root, split, tas, provider, queries>>
    /\ UNCHANGED controlVars

NextSorter ==
    \/ \E options \in OptionsNoDevices : NewAllocatorAction(options)
    \/ \E currentCpus \in SUBSET TreeCpus :
         \E freeCpus \in SUBSET (TreeCpus \ currentCpus) :
           \E delta \in (-MaxDelta)..MaxDelta :
             ToAttributedSliceAction(1, currentCpus, freeCpus, delta)

SpecSorter == InitSplit /\ [][NextSorter]_vars

Sliced == {a \in 1..Len(call) : call[a].pc = "sliced"}

\* less, a matrix of booleans over 1..n, is a strict weak ordering.
StrictWeakOrdering(less, n) ==
    /\ \A i \in 1..n : ~less[i][i]
    /\ \A i, j \in 1..n : less[i][j] => ~less[j][i]
    /\ \A i, j, k \in 1..n : less[i][j] /\ less[j][k] => less[i][k]
    /\ \A i, j, k \in 1..n :
          (~less[i][j] /\ ~less[j][i] /\ ~less[j][k] /\ ~less[k][j])
          => (~less[i][k] /\ ~less[k][i])

\* C19: on the records of every slice, of unsplit and of split trees and for
\* both values of topologyBalancing, the allocate and the release comparator
\* are irreflexive, asymmetric and transitive, and incomparability is
\* transitive.
ComparatorsStrictWeak ==
    \A a \in Sliced :
        LET tnas == call[a].tnas
            n    == Len(tnas)
            allocate == [i \in 1..n |-> [j \in 1..n |-> sorterAllocate(nodes, tas[a], tnas[i], tnas[j])]]
            release  == [i \in 1..n |-> [j \in 1..n |-> sorterRelease(nodes, tas[a], tnas[i], tnas[j])]]
        IN  StrictWeakOrdering(allocate, n) /\ StrictWeakOrdering(release, n)

\* A slice of a split tree holds two records with the same node name that
\* neither comparator puts in an order, and a record that comes before both.
ComparatorsStrictWeakWitness ==
    \E a \in Sliced :
        /\ tas[a].options.preferSpreadOnPhysicalCores
        /\ \E i, j, k \in 1..Len(call[a].tnas) :
             LET tnas == call[a].tnas
             IN  /\ i # j
                 /\ nodes[tnas[i].t].name = nodes[tnas[j].t].name
                 /\ ~sorterAllocate(nodes, tas[a], tnas[i], tnas[j])
                 /\ ~sorterAllocate(nodes, tas[a], tnas[j], tnas[i])
                 /\ ~sorterRelease(nodes, tas[a], tnas[i], tnas[j])
                 /\ ~sorterRelease(nodes, tas[a], tnas[j], tnas[i])
                 /\ sorterAllocate(nodes, tas[a], tnas[k], tnas[i])
                 /\ sorterRelease(nodes, tas[a], tnas[k], tnas[j])

\* Allocator a with topologyBalancing set to b; NewAllocator builds the same
\* tree for both values.
WithBalancing(a, b) == [tas[a] EXCEPT !.options.topologyBalancing = b]

\* ResizeCpus on the sets and delta of a slice, by allocator a with
\* topologyBalancing set to b.
ShrinkWithBalancing(a, b) ==
    LET st == [cache |-> tas[a].cacheCloseCpuSets, provider |-> provider,
               queries |-> queries, lookups |-> 0, cbs |-> <<>>,
               unsorted |-> "ascending"]
        r  == ResizeCpus(nodes, WithBalancing(a, b), st, call[a].currentCpus,
                         call[a].freeCpus, call[a].delta)
    IN  [addFrom |-> r.addFrom, removeFrom |-> r.removeFrom, err |-> r.err]

\* C20: the release comparator gives the same answer on every pair of
\* records with topologyBalancing true and false, lower free counts first in
\* both, and a shrink returns the same sets and error under both values.
ReleaseIgnoresBalancing ==
    \A a \in Sliced :
        LET tnas == call[a].tnas
        IN  /\ \A i, j \in 1..Len(tnas) :
                 /\ sorterRelease(nodes, WithBalancing(a, TRUE), tnas[i], tnas[j])
                    = sorterRelease(nodes, WithBalancing(a, FALSE), tnas[i], tnas[j])
                 /\ (/\ tnas[i].depth = tnas[j].depth
                     /\ tnas[i].currentCpuCounts = tnas[j].currentCpuCounts
                     /\ sorterRelease(nodes, WithBalancing(a, TRUE), tnas[i], tnas[j]))
                    => LET f == HighestDifference(tnas[i].freeCpuCounts, tnas[j].freeCpuCounts)
                       IN  f # 0 => tnas[i].freeCpuCounts[f] < tnas[j].freeCpuCounts[f]
            /\ call[a].delta < 0
               => ShrinkWithBalancing(a, TRUE) = ShrinkWithBalancing(a, FALSE)

\* A slice for a shrink holds two records that the release order tells apart
\* by their free counts, and the shrink succeeds.
ReleaseIgnoresBalancingWitness ==
    \E a \in Sliced :
        /\ call[a].delta < 0
        /\ \E i, j \in 1..Len(call[a].tnas) :
             LET tnas == call[a].tnas
             IN  /\ tnas[i].depth = tnas[j].depth
                 /\ tnas[i].currentCpuCounts = tnas[j].currentCpuCounts
                 /\ tnas[i].freeCpuCounts # tnas[j].freeCpuCounts
                 /\ sorterRelease(nodes, tas[a], tnas[i], tnas[j])
        /\ ShrinkWithBalancing(a, TRUE).err = ErrNil
        /\ ShrinkWithBalancing(a, TRUE).removeFrom # {}

\* C21: a call with delta <= 0 does not invoke the callback
\* deviceUpdateOnEveryCpu, also when it is set.
NoCallbackOnShrink ==
    \A a \in Returned : call[a].delta <= 0 => call[a].cbs = <<>>

\* A successful growth with the callback set and more free CPUs than delta.
DynamicGrowthCall(a) ==
    /\ call[a].delta > 0
    /\ Cardinality(call[a].freeCpus) > call[a].delta
    /\ call[a].err = ErrNil
    /\ tas[a].options.deviceUpdateOnEveryCpu = CallbackSet

\* C22: a successful growth with the callback set returns delta distinct
\* CPUs; the callback is invoked after each chosen CPU with the current CPUs
\* and all CPUs chosen so far: successive arguments grow by exactly one
\* chosen CPU and the last argument holds all delta chosen CPUs.
CallbackAfterEveryCpu ==
    \A a \in Returned :
        DynamicGrowthCall(a) =>
        LET cbs == call[a].cbs
        IN  /\ Cardinality(call[a].addFrom) = call[a].delta
            /\ Len(cbs) > 0
            /\ \A i \in 1..Len(cbs) :
                 call[a].currentCpus \subseteq cbs[i]
                 /\ cbs[i] \subseteq call[a].currentCpus \cup call[a].addFrom
            /\ \A i \in 1..(Len(cbs) - 1) :
                 cbs[i] \subseteq cbs[i + 1] /\ Cardinality(cbs[i + 1] \ cbs[i]) = 1
            /\ cbs[Len(cbs)] = call[a].currentCpus \cup call[a].addFrom

\* The bitmask score of a CPU over a hint list: the bit of the k-th hint set
\* is set when the CPU is in it, the first hint having the highest bit.
BitmaskScore(hints, cpu) ==
    LET n == Len(hints)
        bit[k \in 0..n] ==
            IF k = 0 THEN 0
            ELSE bit[k - 1] + (IF cpu \in hints[k] THEN Pow2(n - k) ELSE 0)
    IN  bit[n]

\* C23: a shrink with a non-empty static hint list and more than -delta
\* current CPUs removes exactly -delta CPUs, and no CPU that is kept has a
\* lower bitmask score than a CPU that is removed.
ShrinkByBitmaskScore ==
    \A a \in Returned :
        (/\ call[a].delta < 0
         /\ Cardinality(call[a].currentCpus) > -call[a].delta
         /\ Len(StaticHints(a)) > 0)
        => /\ Cardinality(call[a].removeFrom) = -call[a].delta
           /\ call[a].removeFrom \subseteq call[a].currentCpus
           /\ \A removed \in call[a].removeFrom :
                \A kept \in call[a].currentCpus \ call[a].removeFrom :
                    BitmaskScore(StaticHints(a), kept) >= BitmaskScore(StaticHints(a), removed)

\* The state a new call on allocator a starts with.
CallState(a) ==
    [cache |-> tas[a].cacheCloseCpuSets, provider |-> provider,
     queries |-> queries, lookups |-> 0, cbs |-> <<>>, unsorted |-> "ascending"]

\* The CPUs that k successive calls ResizeCpus(., ., -1) on allocator a
\* remove, each removed CPU being moved from current to free before the next.
RECURSIVE IteratedShrink(_, _, _, _)
IteratedShrink(a, currentCpus, freeCpus, k) ==
    IF k = 0 THEN {}
    ELSE LET r == ResizeCpus(nodes, tas[a], CallState(a), currentCpus, freeCpus, -1)
         IN  r.removeFrom \cup IteratedShrink(a, currentCpus \ r.removeFrom,
                                              freeCpus \cup r.removeFrom, k - 1)

\* C24: without device hints a shrink by k <= |current| returns no error and
\* exactly the k CPUs that k successive shrinks by one remove.
BatchShrinkIsIterated ==
    \A a \in Returned :
        (/\ call[a].delta < 0
         /\ -call[a].delta <= Cardinality(call[a].currentCpus)
         /\ tas[a].options.preferCloseToDevices = <<>>
         /\ tas[a].options.preferFarFromDevices = <<>>)
        => /\ call[a].err = ErrNil
           /\ Cardinality(call[a].removeFrom) = -call[a].delta
           /\ call[a].removeFrom
              = IteratedShrink(a, call[a].currentCpus, call[a].freeCpus, -call[a].delta)

\* A shrink by 2 of more than 2 current CPUs on both caches has returned.
BatchShrinkIsIteratedWitness ==
    \E a \in Returned :
        /\ call[a].delta = -2
        /\ call[a].currentCpus = {0, 1, 4, 5, 6}
        /\ call[a].err = ErrNil
        /\ Cardinality(call[a].removeFrom) = 2

-----------------------------------------------------------------------------
(* Calls with CPUs of the tree only, on the trees of SplitSystems and with *)
(* every option record.                                                    *)

NextSystems ==
    \/ \E options \in Options : NewAllocatorAction(options)
    \/ \E currentCpus \in SUBSET TreeCpus :
         \E freeCpus \in SUBSET (TreeCpus \ currentCpus) :
           \E delta \in (-MaxDelta)..MaxDelta :
             ResizeCpusAction(1, currentCpus, freeCpus, delta)
    \/ Return

SpecSystems == InitSplit /\ [][NextSystems]_vars

-----------------------------------------------------------------------------
(* Allocators that spread on physical cores, on the two-cache topology of  *)
(* Sys8, with and without device hints and callback; they grow by up to    *)
(* MaxGrow CPUs, which takes the loop of resizeCpusOneAtATime.             *)

OptionsSpread ==
    {[topologyBalancing           |-> b,
      preferSpreadOnPhysicalCores |-> TRUE,
      preferCloseToDevices        |-> close,
      preferFarFromDevices        |-> <<>>,
      virtDevCpusets              |-> EmptyMap,
      deviceUpdateOnEveryCpu      |-> cb] :
        b \in BOOLEAN, close \in {<<>>, <<"/devNone", "/devA", "/devB">>},
        cb \in {CallbackNil, CallbackSet}}

NextSpread ==
    \/ \E options \in OptionsSpread : NewAllocatorAction(options)
    \/ \E currentCpus \in SUBSET TreeCpus :
         \E delta \in (-MaxDelta)..MaxGrow :
           ResizeCpusAction(1, currentCpus, TreeCpus \ currentCpus, delta)
    \/ Return

SpecSpread == InitDevices /\ [][NextSpread]_vars

\* C25: a call with CPUs of the tree returns none of the errors of a broken
\* stage: no single CPU found, a CPU added or released twice, no resizer
\* left.
NoInternalError ==
    \A a \in Returned :
        call[a].err \notin {ErrNoSingleCpuToAdd, ErrNoSingleCpuToFree, ErrDoubleAdd,
                             ErrDoubleRelease, ErrNoResizerLeft}

\* C26: a call with CPUs of the tree returns no error when there are at
\* least delta free CPUs to grow by or at least -delta current CPUs to
\* shrink by, under every option record; an error is one of the first
\* stage, which finds too few CPUs.
ResizeSucceedsWhenPossible ==
    \A a \in Returned :
        /\ (\/ call[a].delta > 0 /\ Cardinality(call[a].freeCpus) >= call[a].delta
            \/ call[a].delta < 0 /\ Cardinality(call[a].currentCpus) >= -call[a].delta)
           => call[a].err = ErrNil
        /\ call[a].err # ErrNil
           => \/ call[a].err = ErrNotEnoughFree
                 /\ call[a].delta > 0 /\ Cardinality(call[a].freeCpus) < call[a].delta
              \/ call[a].err = ErrNotEnoughCurrent
                 /\ call[a].delta < 0 /\ Cardinality(call[a].currentCpus) < -call[a].delta

\* A spread allocator with device hints and the callback has added three of
\* eight free CPUs.
NoInternalErrorWitness ==
    \E a \in Returned :
        /\ tas[a].options.preferSpreadOnPhysicalCores
        /\ tas[a].options.deviceUpdateOnEveryCpu = CallbackSet
        /\ tas[a].options.preferCloseToDevices # <<>>
        /\ call[a].delta = 3
        /\ call[a].currentCpus = {}
        /\ call[a].err = ErrNil
        /\ Cardinality(call[a].addFrom) = 3

\* A growth has succeeded although the first hint holds no free CPU.
ResizeSucceedsWhenPossibleWitness ==
    \E a \in Returned :
        /\ tas[a].options.preferCloseToDevices = <<"/devA">>
        /\ call[a].delta = 1
        /\ call[a].freeCpus = {2, 3}
        /\ call[a].err = ErrNil
        /\ call[a].addFrom # {}

-----------------------------------------------------------------------------
(* Package control of the resource manager: controllers register under a   *)
(* name, NewControl makes the control instance, StartStopControllers       *)
(* restarts the controllers and the Run...Hooks functions run one hook of  *)
(* every running controller.  What a controller's Start and hooks return   *)
(* is the controller's business: any answer can come.  The model records   *)
(* the Controller methods an operation calls, in order, in invoked.        *)

\* Controller names: "cpu", "cri", "rdt".
ControllerNames == {<<99, 112, 117>>, <<99, 114, 105>>, <<114, 100, 116>>}

\* our hook names
precreate  == "pre-create"
prestart   == "pre-start"
poststart  == "post-start"
postupdate == "post-update"
poststop   == "post-stop"

Hooks == {precreate, prestart, poststart, postupdate, poststop}

\* A call of a Controller method and what it returned.
Invocation(method, name, enabled, err) ==
    [method |-> method, name |-> name, enabled |-> enabled, err |-> err]

\* What a controller that was never started has returned from Start.
NeverStarted == [ever |-> FALSE, enabled |-> FALSE, err |-> FALSE]

\* Register registers a new controller.  For a name that is registered it
\* returns an error and changes nothing.
Register(name) ==
    /\ name \notin DOMAIN controllers
    /\ controllers' = controllers @@ (name :> [name |-> name, running |-> FALSE])
    /\ started' = started @@ (name :> NeverStarted)
    /\ invoked' = <<>>
    /\ UNCHANGED control
    /\ UNCHANGED cpuTreeVars

\* sort.Slice(c.controllers, by strings.Compare of the names): insertion of
\* each controller before the first one with a greater name.
InsertByName(sorted, name) ==
    LET before == {i \in 1..Len(sorted) : ~StrLess(name, sorted[i])}
        n == Cardinality(before)
    IN  SubSeq(sorted, 1, n) \o <<name>> \o SubSeq(sorted, n + 1, Len(sorted))

RECURSIVE SortSliceByName(_, _)
SortSliceByName(list, i) ==
    IF i = 0 THEN <<>> ELSE InsertByName(SortSliceByName(list, i - 1), list[i])

\* NewControl: the controllers of the map, in the order of the range over
\* it, sorted by name.
NewControl ==
    /\ ~control.made
    /\ \E order \in Orders(DOMAIN controllers) :
         control' = [controllers |-> SortSliceByName(order, Len(order)), made |-> TRUE]
    /\ invoked' = <<>>
    /\ UNCHANGED <<controllers, started>>
    /\ UNCHANGED cpuTreeVars

\* StartStopControllers, first loop: stop the running controllers.
RECURSIVE StopLoop(_, _, _, _)
StopLoop(cs, list, i, inv) ==
    IF i > Len(list) THEN [controllers |-> cs, invoked |-> inv]
    ELSE IF cs[list[i]].running
         THEN StopLoop([cs EXCEPT ![list[i]].running = FALSE], list, i + 1,
                       Append(inv, Invocation("Stop", list[i], FALSE, FALSE)))
         ELSE StopLoop(cs, list, i + 1, inv)

\* StartStopControllers, second loop: start every controller; answers is
\* what Start returns, per controller.
RECURSIVE StartLoop(_, _, _, _, _, _)
StartLoop(cs, list, i, inv, answers, errs) ==
    IF i > Len(list) THEN [controllers |-> cs, invoked |-> inv, errs |-> errs]
    ELSE LET name == list[i]
             inv1 == Append(inv, Invocation("Start", name, answers[name].enabled, answers[name].err))
         IN  IF answers[name].err
             THEN StartLoop(cs, list, i + 1, inv1, answers, errs + 1)
             ELSE IF answers[name].enabled
                  THEN StartLoop([cs EXCEPT ![name].running = TRUE], list, i + 1,
                                 inv1, answers, errs)
             ELSE StartLoop(cs, list, i + 1, inv1, answers, errs)

\* StartStopControllers starts/stops all controllers.
StartStopControllers(answers) ==
    /\ control.made
    /\ \E stopped \in {StopLoop(controllers, control.controllers, 1, <<>>)} :
         \E r \in {StartLoop(stopped.controllers, control.controllers, 1,
                             stopped.invoked, answers, 0)} :
           /\ controllers' = r.controllers
           /\ invoked' = r.invoked
           /\ started' = [name \in DOMAIN started |->
                            IF \E i \in 1..Len(r.invoked) :
                                  r.invoked[i].method = "Start" /\ r.invoked[i].name = name
                            THEN [ever |-> TRUE, enabled |-> answers[name].enabled,
                                  err |-> answers[name].err]
                            ELSE started[name]]
    /\ UNCHANGED control
    /\ UNCHANGED cpuTreeVars

\* runhook that does not look at controller.running.
runhookAlways(cs, name, hook, fails) == [called |-> TRUE, err |-> name \in fails]

\* runhook executes the hook of a running controller; fails are the
\* controllers whose hook returns an error.
runhook(cs, name, hook, fails) ==
    IF ~cs[name].running THEN [called |-> FALSE, err |-> FALSE]
    ELSE [called |-> TRUE, err |-> name \in fails]

\* The loop of RunPreCreateHooks and of the other four Run...Hooks.
RECURSIVE RunHooksLoop(_, _, _, _, _, _)
RunHooksLoop(cs, list, i, hook, fails, inv) ==
    IF i > Len(list) THEN [invoked |-> inv, err |-> FALSE]
    ELSE LET r    == runhook(cs, list[i], hook, fails)
             inv1 == IF r.called THEN Append(inv, Invocation(hook, list[i], FALSE, r.err))
                     ELSE inv
         IN  IF r.err THEN [invoked |-> inv1, err |-> TRUE]
             ELSE RunHooksLoop(cs, list, i + 1, hook, fails, inv1)

\* RunPreCreateHooks, RunPreStartHooks, RunPostStartHooks,
\* RunPostUpdateHooks, RunPostStopHooks: the function of the hook.
RunHooks(hook, fails) ==
    /\ control.made
    /\ invoked' = RunHooksLoop(controllers, control.controllers, 1, hook, fails, <<>>).invoked
    /\ UNCHANGED <<controllers, control, started>>
    /\ UNCHANGED cpuTreeVars

\* No CPU tree: the resource manager before any policy has made one.
InitControl ==
    /\ nodes = <<>>
    /\ root = nil
    /\ split = NoSplit
    /\ tas = <<>>
    /\ provider = <<>>
    /\ queries = <<>>
    /\ call = <<>>
    /\ NoControllers

NextControl ==
    \/ \E name \in ControllerNames : Register(name)
    \/ NewControl
    \/ \E answers \in [ControllerNames -> [enabled : BOOLEAN, err : BOOLEAN]] :
         StartStopControllers(answers)
    \/ \E hook \in Hooks : \E fails \in SUBSET ControllerNames : RunHooks(hook, fails)

SpecControl == InitControl /\ [][NextControl]_vars

\* The positions of the calls of a method in a trace of invocations.
CallsOf(inv, methods) == {i \in 1..Len(inv) : inv[i].method \in methods}

\* A controller whose most recent Start returned enabled = true and no error.
StartedEnabled(s) == s.ever /\ s.enabled /\ ~s.err

\* What one step of the control package does, given the state before it.
LifecycleStep ==
    LET stops  == CallsOf(invoked', {"Stop"})
        starts == CallsOf(invoked', {"Start"})
        hooks  == CallsOf(invoked', Hooks)
        list   == control.controllers
        members == {list[i] : i \in 1..Len(list)}
    IN  \* running is: the most recent Start returned enabled without error
        /\ \A name \in DOMAIN controllers' :
             controllers'[name].running <=> StartedEnabled(started'[name])
        \* a hook is invoked only on a controller that is running
        /\ \A i \in hooks :
             /\ invoked'[i].name \in DOMAIN controllers
             /\ controllers[invoked'[i].name].running
             /\ StartedEnabled(started[invoked'[i].name])
        \* StartStopControllers: every Stop before any Start, the stopped
        \* controllers are the ones that were running, and every controller
        \* is started whatever the Starts before it returned
        /\ (starts # {} \/ stops # {}) =>
             /\ \A i \in stops : \A j \in starts : i < j
             /\ {invoked'[i].name : i \in stops} = {name \in members : controllers[name].running}
             /\ Cardinality(stops) = Cardinality({invoked'[i].name : i \in stops})
             /\ Cardinality(starts) = Len(list)
             /\ \A k \in 1..Len(list) :
                  invoked'[Cardinality(stops) + k].name = list[k]
             /\ \A j \in starts :
                  controllers'[invoked'[j].name].running
                      <=> (invoked'[j].enabled /\ ~invoked'[j].err)
        \* hooks: ascending name order, nothing after the first failure, and
        \* no running controller skipped before it
        /\ hooks # {} =>
             /\ hooks = 1..Len(invoked')
             /\ \A i, j \in hooks : i < j => StrLess(invoked'[i].name, invoked'[j].name)
             /\ \A i, j \in hooks : invoked'[i].method = invoked'[j].method
             /\ \A i \in hooks : i < Len(invoked') => ~invoked'[i].err
             /\ \A name \in members :
                  controllers[name].running =>
                      \/ \E i \in hooks : invoked'[i].name = name
                      \/ /\ invoked'[Len(invoked')].err
                         /\ StrLess(invoked'[Len(invoked')].name, name)

\* C27: controller lifecycle.  In every step of the control package a
\* controller is running exactly when its most recent Start returned
\* enabled = true without error, a hook is invoked only on running
\* controllers, StartStopControllers stops every running controller before
\* it starts any and starts every controller even after a failed or disabled
\* Start, and hooks run over the running controllers in ascending name order
\* and stop at the first hook failure.
ControllerLifecycle == [][LifecycleStep]_vars

\* A hook run over three controllers: the Start of the first had failed, the
\* second and the third are running, the hook of the second failed and the
\* third was not invoked.
ControllerLifecycleWitness ==
    /\ control.made
    /\ Len(control.controllers) = 3
    /\ started[control.controllers[1]].ever
    /\ started[control.controllers[1]].err
    /\ ~controllers[control.controllers[1]].running
    /\ controllers[control.controllers[2]].running
    /\ controllers[control.controllers[3]].running
    /\ invoked = <<Invocation(precreate, control.controllers[2], FALSE, TRUE)>>

====
